---- MODULE Spec2Model ----
(***************************************************************************)
(* Model of the OutbreakTracking contract                                  *)
(* (src/blockchain/contracts/OutbreakTracking.sol): the ledger of          *)
(* infection reports, the registry of outbreak locations, the coordinate   *)
(* parser, the integer distance estimate and the queries built on them.    *)
(*                                                                         *)
(* A location text is a sequence of byte values.  The contract's int256    *)
(* arithmetic is carried out on sign-magnitude numbers whose magnitude is  *)
(* a little-endian sequence of base-10000 limbs, because the intermediate  *)
(* products of calculateDistance do not fit a machine integer.             *)
(***************************************************************************)
EXTENDS Integers, Sequences, FiniteSets, TLC

(***************************************************************************)
(* Bytes and location texts                                                *)
(***************************************************************************)
Ascii ==
  [c \in {",", "-", ".", "0", "1", "2", "3", "4", "5", "6", "7", "8", "9",
          "a", "b", "d", "i", "n", "p", "t", "u"} |->
     CASE c = "," -> 44 [] c = "-" -> 45 [] c = "." -> 46
       [] c = "0" -> 48 [] c = "1" -> 49 [] c = "2" -> 50 [] c = "3" -> 51
       [] c = "4" -> 52 [] c = "5" -> 53 [] c = "6" -> 54 [] c = "7" -> 55
       [] c = "8" -> 56 [] c = "9" -> 57
       [] c = "a" -> 97 [] c = "b" -> 98 [] c = "d" -> 100 [] c = "i" -> 105
       [] c = "n" -> 110 [] c = "p" -> 112 [] c = "t" -> 116 [] c = "u" -> 117]

Text(chars) == [i \in 1..Len(chars) |-> Ascii[chars[i]]]

Comma == 44
Minus == 45
Dot == 46
Zero == 48

\* "0,0"
LocOrigin == Text(<<"0", ",", "0">>)
\* "0.001,0"
LocNear == Text(<<"0", ".", "0", "0", "1", ",", "0">>)
\* "0.002,0"
LocFar == Text(<<"0", ".", "0", "0", "2", ",", "0">>)
\* "bad-input"
LocBad == Text(<<"b", "a", "d", "-", "i", "n", "p", "u", "t">>)

Locations == {LocOrigin, LocNear, LocFar, LocBad}

(***************************************************************************)
(* int256 arithmetic                                                       *)
(***************************************************************************)
Base == 10000

RECURSIVE Norm(_)
Norm(m) == IF m = <<>> THEN <<>>
           ELSE IF m[Len(m)] = 0 THEN Norm(SubSeq(m, 1, Len(m) - 1))
           ELSE m

RECURSIVE NatToMag(_)
NatToMag(n) == IF n = 0 THEN <<>> ELSE <<n % Base>> \o NatToMag(n \div Base)

RECURSIVE MagToNat(_)
MagToNat(m) == IF m = <<>> THEN 0 ELSE m[1] + Base * MagToNat(Tail(m))

RECURSIVE MagAddC(_, _, _)
MagAddC(a, b, carry) ==
  IF a = <<>> /\ b = <<>> THEN (IF carry = 0 THEN <<>> ELSE <<carry>>)
  ELSE LET x == IF a = <<>> THEN 0 ELSE a[1]
           y == IF b = <<>> THEN 0 ELSE b[1]
           s == x + y + carry
       IN <<s % Base>> \o MagAddC(IF a = <<>> THEN <<>> ELSE Tail(a),
                                  IF b = <<>> THEN <<>> ELSE Tail(b),
                                  s \div Base)

MagAdd(a, b) == MagAddC(a, b, 0)

\* a - b for a >= b, limb by limb with a borrow
RECURSIVE MagSubB(_, _, _)
MagSubB(a, b, borrow) ==
  IF a = <<>> THEN <<>>
  ELSE LET y == IF b = <<>> THEN 0 ELSE b[1]
           d == a[1] - y - borrow
       IN <<IF d < 0 THEN d + Base ELSE d>>
            \o MagSubB(Tail(a), IF b = <<>> THEN <<>> ELSE Tail(b),
                       IF d < 0 THEN 1 ELSE 0)

MagSub(a, b) == Norm(MagSubB(a, b, 0))

\* -1, 0, 1 as a < b, a = b, a > b (both normalised)
RECURSIVE MagCmp(_, _)
MagCmp(a, b) ==
  IF Len(a) # Len(b) THEN (IF Len(a) < Len(b) THEN -1 ELSE 1)
  ELSE IF a = <<>> THEN 0
  ELSE IF a[Len(a)] # b[Len(b)] THEN (IF a[Len(a)] < b[Len(b)] THEN -1 ELSE 1)
  ELSE MagCmp(SubSeq(a, 1, Len(a) - 1), SubSeq(b, 1, Len(b) - 1))

MagLess(a, b) == MagCmp(a, b) = -1

RECURSIVE MagMulLimb(_, _, _)
MagMulLimb(a, d, carry) ==
  IF a = <<>> THEN (IF carry = 0 THEN <<>> ELSE <<carry>>)
  ELSE LET p == a[1] * d + carry
       IN <<p % Base>> \o MagMulLimb(Tail(a), d, p \div Base)

RECURSIVE MagMul(_, _)
MagMul(a, b) ==
  IF a = <<>> \/ b = <<>> THEN <<>>
  ELSE LET rest == MagMul(a, Tail(b))
       IN Norm(MagAdd(MagMulLimb(a, b[1], 0),
                      IF rest = <<>> THEN <<>> ELSE <<0>> \o rest))

\* quotient (one limb) and remainder of a by b > 0 when a < Base * b,
\* by doubling the divisor
RECURSIVE MagDivStep(_, _)
MagDivStep(a, b) ==
  IF MagLess(a, b) THEN [q |-> 0, r |-> a]
  ELSE LET h == MagDivStep(a, MagAdd(b, b))
       IN IF MagLess(h.r, b) THEN [q |-> 2 * h.q, r |-> h.r]
          ELSE [q |-> 2 * h.q + 1, r |-> MagSub(h.r, b)]

\* long division of a by b > 0, most significant limb first
RECURSIVE MagDivMod(_, _)
MagDivMod(a, b) ==
  IF a = <<>> THEN [q |-> <<>>, r |-> <<>>]
  ELSE LET h == MagDivMod(Tail(a), b)
           s == MagDivStep(Norm(<<a[1]>> \o h.r), b)
       IN [q |-> Norm(<<s.q>> \o h.q), r |-> s.r]

MagDiv(a, b) == MagDivMod(a, b).q

\* a squared n times: a^(2^n)
RECURSIVE MagSquareTimes(_, _)
MagSquareTimes(a, n) == IF n = 0 THEN a
                        ELSE MagSquareTimes(MagMul(a, a), n - 1)

\* type(uint256).max = 2^256 - 1
Uint256Max == MagSub(MagSquareTimes(<<2>>, 8), <<1>>)

I(n) == [neg |-> n < 0, mag |-> NatToMag(IF n < 0 THEN -n ELSE n)]

IntOf(x) == IF x.neg THEN -MagToNat(x.mag) ELSE MagToNat(x.mag)

Mk(neg, mag) == [neg |-> neg /\ mag # <<>>, mag |-> mag]

INeg(x) == Mk(~x.neg, x.mag)

IAdd(x, y) ==
  IF x.neg = y.neg THEN Mk(x.neg, MagAdd(x.mag, y.mag))
  ELSE IF MagLess(x.mag, y.mag) THEN Mk(y.neg, MagSub(y.mag, x.mag))
  ELSE Mk(x.neg, MagSub(x.mag, y.mag))

ISub(x, y) == IAdd(x, INeg(y))

IMul(x, y) == Mk(x.neg # y.neg, MagMul(x.mag, y.mag))

\* Solidity's signed division truncates toward zero
IDiv(x, y) == Mk(x.neg # y.neg, MagDiv(x.mag, y.mag))

ILess(x, y) ==
  IF x.neg # y.neg THEN x.neg
  ELSE IF x.neg THEN MagLess(y.mag, x.mag)
  ELSE MagLess(x.mag, y.mag)

ILeq(x, y) == ~ILess(y, x)

(***************************************************************************)
(* CoordinateParser                                                        *)
(***************************************************************************)
Failed(why) == [ok |-> FALSE, error |-> why]

ErrFormat == "Invalid coordinate format"
ErrChar == "Invalid character in coordinate"
ErrPanic == "Panic(0x11)"
ErrAuth == "Not authorized"

\* index (0-based) of the first ',' of the text, 0 when there is none
RECURSIVE findComma(_, _)
findComma(locationBytes, i) ==
  IF i >= Len(locationBytes) THEN 0
  ELSE IF locationBytes[i + 1] = Comma THEN i
  ELSE findComma(locationBytes, i + 1)

substring(str, startIndex, length) ==
  [i \in 1..length |-> str[startIndex + i]]

\* the loop of parseCoordinateValue from index i on
RECURSIVE parseDigits(_, _, _, _, _)
parseDigits(strBytes, i, result, decimalMultiplier, foundDecimal) ==
  IF i >= Len(strBytes)
  THEN [ok |-> TRUE, result |-> result, foundDecimal |-> foundDecimal]
  ELSE IF strBytes[i + 1] = Dot
  THEN parseDigits(strBytes, i + 1, result, decimalMultiplier, TRUE)
  ELSE IF strBytes[i + 1] < Zero THEN Failed(ErrPanic)
  ELSE LET digit == strBytes[i + 1] - Zero
       IN IF ~(digit <= 9) THEN Failed(ErrChar)
          ELSE IF ~foundDecimal
          THEN parseDigits(strBytes, i + 1, result * 10 + digit,
                           decimalMultiplier, foundDecimal)
          ELSE parseDigits(strBytes, i + 1,
                           result + digit * (decimalMultiplier \div 10),
                           decimalMultiplier \div 10, foundDecimal)

parseCoordinateValue(str) ==
  LET isNegative == Len(str) > 0 /\ str[1] = Minus
      startIndex == IF isNegative THEN 1 ELSE 0
      r == parseDigits(str, startIndex, 0, 1000000, FALSE)
  IN IF ~r.ok THEN r
     ELSE LET scaled == IF ~r.foundDecimal THEN r.result * 1000000
                        ELSE r.result
          IN [ok |-> TRUE, value |-> IF isNegative THEN -scaled ELSE scaled]

parseCoordinate_Unchecked(location) ==
  LET commaIndex == findComma(location, 0)
      latitude == parseCoordinateValue(substring(location, 0, commaIndex))
      longitude == parseCoordinateValue(
         substring(location, commaIndex + 1,
                   IF Len(location) > commaIndex
                   THEN Len(location) - commaIndex - 1 ELSE 0))
  IN IF ~latitude.ok THEN latitude
     ELSE IF ~longitude.ok THEN longitude
     ELSE [ok |-> TRUE, latitude |-> latitude.value,
           longitude |-> longitude.value]

parseCoordinate(location) ==
  LET commaIndex == findComma(location, 0)
  IN IF ~(commaIndex > 0 /\ commaIndex < Len(location) - 1)
     THEN Failed(ErrFormat)
     ELSE LET latitude == parseCoordinateValue(substring(location, 0, commaIndex))
              longitude == parseCoordinateValue(
                 substring(location, commaIndex + 1,
                           Len(location) - commaIndex - 1))
          IN IF ~latitude.ok THEN latitude
             ELSE IF ~longitude.ok THEN longitude
             ELSE [ok |-> TRUE, latitude |-> latitude.value,
                   longitude |-> longitude.value]

(***************************************************************************)
(* DistanceEstimator                                                       *)
(***************************************************************************)
abs(x) == IF ~x.neg THEN x ELSE INeg(x)

RECURSIVE sqrtLoop_ReturnsLastIterate(_, _, _)
sqrtLoop_ReturnsLastIterate(z, y, w) ==
  IF MagLess(y, w)
  THEN sqrtLoop_ReturnsLastIterate(z, MagDiv(MagAdd(MagDiv(z, y), y), <<2>>), y)
  ELSE y

\* while (y < w) { w = y; y = (z / y + y) / 2; } return w
RECURSIVE sqrtLoop(_, _, _)
sqrtLoop(z, y, w) ==
  IF MagLess(y, w) THEN sqrtLoop(z, MagDiv(MagAdd(MagDiv(z, y), y), <<2>>), y)
  ELSE w

sqrt(x) ==
  IF ILeq(x, I(0)) THEN I(0)
  ELSE LET z == x.mag
       IN Mk(FALSE, sqrtLoop(z, MagDiv(MagAdd(z, <<1>>), <<2>>), z))

earthRadius == 6371000
precision == 1000000

\* ((90 * precision) - abs(latitude / precision)) * precision / (90 * precision)
cosLat1(latitude) ==
  IDiv(IMul(ISub(IMul(I(90), I(precision)),
                 abs(IDiv(I(latitude), I(precision)))),
            I(precision)),
       IMul(I(90), I(precision)))

distanceOf_SumOfRadians(coord1, coord2) ==
  LET lat1Rad == IDiv(IMul(I(coord1.latitude), I(3141592)), IMul(I(180), I(precision)))
      lon1Rad == IDiv(IMul(I(coord1.longitude), I(3141592)), IMul(I(180), I(precision)))
      lat2Rad == IDiv(IMul(I(coord2.latitude), I(3141592)), IMul(I(180), I(precision)))
      lon2Rad == IDiv(IMul(I(coord2.longitude), I(3141592)), IMul(I(180), I(precision)))
      dLat == IAdd(lat2Rad, lat1Rad)
      dLon == IAdd(lon2Rad, lon1Rad)
      x == IDiv(IMul(dLat, I(earthRadius)), I(precision))
      y == IDiv(IMul(IMul(dLon, I(earthRadius)), cosLat1(coord1.latitude)),
                IMul(I(precision), I(precision)))
  IN IntOf(sqrt(IAdd(IMul(x, x), IMul(y, y))))

distanceOf(coord1, coord2) ==
  LET lat1Rad == IDiv(IMul(I(coord1.latitude), I(3141592)), IMul(I(180), I(precision)))
      lon1Rad == IDiv(IMul(I(coord1.longitude), I(3141592)), IMul(I(180), I(precision)))
      lat2Rad == IDiv(IMul(I(coord2.latitude), I(3141592)), IMul(I(180), I(precision)))
      lon2Rad == IDiv(IMul(I(coord2.longitude), I(3141592)), IMul(I(180), I(precision)))
      dLat == ISub(lat2Rad, lat1Rad)
      dLon == ISub(lon2Rad, lon1Rad)
      x == IDiv(IMul(dLat, I(earthRadius)), I(precision))
      y == IDiv(IMul(IMul(dLon, I(earthRadius)), cosLat1(coord1.latitude)),
                IMul(I(precision), I(precision)))
  IN IntOf(sqrt(IAdd(IMul(x, x), IMul(y, y))))

calculateDistance(loc1, loc2) ==
  LET coord1 == parseCoordinate(loc1)
      coord2 == parseCoordinate(loc2)
  IN IF ~coord1.ok THEN coord1
     ELSE IF ~coord2.ok THEN coord2
     ELSE [ok |-> TRUE, distance |-> distanceOf(coord1, coord2)]

(***************************************************************************)
(* Bounds of the model                                                     *)
(***************************************************************************)
MaxLedger == 2
MaxTime == 1

Addresses == {"deployer", "user"}
\* the identities reports are filed about
Individuals == {"patient"}
Radii == {108, 5000}
Thresholds == {0, 1}

(***************************************************************************)
(* State: the storage of the contract, block.timestamp (now), and the      *)
(* receipt of the latest call.  calculateDistance is a pure function; its  *)
(* value on every pair of texts of the model is computed once, at Init,    *)
(* and kept in distances, where isWithinRadius looks it up.                *)
(***************************************************************************)
VARIABLES owner, outbreakRadius, infectedIndividuals, outbreakLocations,
          now, lastCall, distances, replica, frontend

vars == <<owner, outbreakRadius, infectedIndividuals, outbreakLocations,
          now, lastCall, distances, replica, frontend>>

\* the four persistent fields of the contract
storage == <<owner, outbreakRadius, infectedIndividuals, outbreakLocations>>

InfectedIndividual_PostDated(individualAddress, location, testResult, timestamp) ==
  [individualAddress |-> individualAddress, location |-> location,
   testResult |-> testResult, timestamp |-> timestamp + 1]

InfectedIndividual(individualAddress, location, testResult, timestamp) ==
  [individualAddress |-> individualAddress, location |-> location,
   testResult |-> testResult, timestamp |-> timestamp]

OutbreakLocation(location, infectedCount, timestamp) ==
  [location |-> location, infectedCount |-> infectedCount,
   timestamp |-> timestamp]

NewInfection(individualAddress, location, timestamp) ==
  [name |-> "NewInfection", individualAddress |-> individualAddress,
   location |-> location, timestamp |-> timestamp]

PotentialOutbreak(location, infectedCount, timestamp) ==
  [name |-> "PotentialOutbreak", location |-> location,
   infectedCount |-> infectedCount, timestamp |-> timestamp]

ProximityAlert(user, userLocation, outbreakLocation, distance) ==
  [name |-> "ProximityAlert", user |-> user, userLocation |-> userLocation,
   outbreakLocation |-> outbreakLocation, distance |-> distance]

(***************************************************************************)
(* Helpers of the contract                                                 *)
(***************************************************************************)
compareLocations_ByReference(loc1, loc2) == FALSE

\* keccak256 of the packed bytes is equal exactly for equal byte strings
compareLocations(loc1, loc2) == loc1 = loc2

\* the value of calculateDistance on each of the given pairs of texts
tabulateDistance(pairs) ==
  [pair \in pairs |-> calculateDistance(pair[1], pair[2])]

isWithinRadius_Strict(loc1, loc2, radius) ==
  LET d == distances[<<loc1, loc2>>]
  IN IF ~d.ok THEN d
     ELSE [ok |-> TRUE, inRadius |-> d.distance < radius,
           distance |-> d.distance]

isWithinRadius_AlwaysIn(loc1, loc2, radius) ==
  LET d == distances[<<loc1, loc2>>]
  IN IF ~d.ok THEN d
     ELSE [ok |-> TRUE, inRadius |-> TRUE, distance |-> d.distance]

\* distance <= radius, the distance being calculateDistance(loc1, loc2)
isWithinRadius(loc1, loc2, radius) ==
  LET d == distances[<<loc1, loc2>>]
  IN IF ~d.ok THEN d
     ELSE [ok |-> TRUE, inRadius |-> d.distance <= radius,
           distance |-> d.distance]

\* index of the first entry whose location equals loc from index i on, 0 if none
RECURSIVE findLocation(_, _, _)
findLocation(entries, loc, i) ==
  IF i > Len(entries) THEN 0
  ELSE IF compareLocations(entries[i].location, loc) THEN i
  ELSE findLocation(entries, loc, i + 1)

\* the loop of checkAndMergeOutbreaks from entry i on; logs are those emitted
\* until the loop ends or a parse fails
RECURSIVE mergeLoop(_, _, _, _, _, _)
mergeLoop(entries, radius, newLocation, ts, i, logs) ==
  IF i > Len(entries) THEN [ok |-> TRUE, logs |-> logs]
  ELSE IF compareLocations(entries[i].location, newLocation)
  THEN mergeLoop(entries, radius, newLocation, ts, i + 1, logs)
  ELSE LET w == isWithinRadius(entries[i].location, newLocation, radius)
       IN IF ~w.ok THEN [ok |-> FALSE, error |-> w.error, logs |-> logs]
          ELSE mergeLoop(entries, radius, newLocation, ts, i + 1,
                 IF w.inRadius
                 THEN Append(logs, PotentialOutbreak(newLocation,
                                     entries[i].infectedCount, ts))
                 ELSE logs)

checkAndMergeOutbreaks(entries, radius, newLocation, ts) ==
  mergeLoop(entries, radius, newLocation, ts, 1, <<>>)

(***************************************************************************)
(* reportInfection: the run of the function body on the storage; when the  *)
(* run fails, the record holds the writes and logs made up to the failure  *)
(***************************************************************************)
push_Overwrite(array, item) ==
  IF array = <<>> THEN <<item>> ELSE [array EXCEPT ![Len(array)] = item]

push_Front(array, item) == <<item>> \o array

\* array.push(item)
push(array, item) == Append(array, item)

incrementEntry_KeepsCount(entries, i, ts) ==
  [entries EXCEPT ![i].timestamp = ts]

incrementEntry_Decrement(entries, i, ts) ==
  [entries EXCEPT ![i].infectedCount = @ - 1, ![i].timestamp = ts]

incrementEntry_StaleTimestamp(entries, i, ts) ==
  [entries EXCEPT ![i].infectedCount = @ + 1]

\* outbreakLocations[i].infectedCount++; outbreakLocations[i].timestamp = now
incrementEntry(entries, i, ts) ==
  [entries EXCEPT ![i].infectedCount = @ + 1, ![i].timestamp = ts]

primaryEvent_AnnouncesEveryReport(locationExists, individualAddress, location, infectedCount, ts) ==
  <<NewInfection(individualAddress, location, ts)>>

\* emit PotentialOutbreak(...) at a known location, emit NewInfection(...) at
\* a new one
primaryEvent(locationExists, individualAddress, location, infectedCount, ts) ==
  IF locationExists THEN <<PotentialOutbreak(location, infectedCount, ts)>>
  ELSE <<NewInfection(individualAddress, location, ts)>>

reportPositive_SecondaryFirst(individuals, entries, radius, individualAddress, location, testResult, ts) ==
  LET individuals1 == push(individuals,
          InfectedIndividual(individualAddress, location, testResult, ts))
      i == findLocation(entries, location, 1)
      locationExists == i > 0
      entries1 ==
        IF locationExists THEN incrementEntry(entries, i, ts)
        ELSE push(entries, OutbreakLocation(location, 1, ts))
      logs1 ==
        IF locationExists
        THEN <<PotentialOutbreak(location, entries1[i].infectedCount, ts)>>
        ELSE <<NewInfection(individualAddress, location, ts)>>
      m == checkAndMergeOutbreaks(entries1, radius, location, ts)
  IN IF m.ok
     THEN [ok |-> TRUE, infectedIndividuals |-> individuals1,
           outbreakLocations |-> entries1, logs |-> m.logs \o logs1]
     ELSE [ok |-> FALSE, error |-> m.error,
           infectedIndividuals |-> individuals1,
           outbreakLocations |-> entries1, logs |-> m.logs \o logs1]

reportPositive_LedgerOnlyForNewLocation(individuals, entries, radius, individualAddress, location, testResult, ts) ==
  LET i == findLocation(entries, location, 1)
      locationExists == i > 0
      individuals1 ==
        IF locationExists THEN individuals
        ELSE push(individuals,
                  InfectedIndividual(individualAddress, location, testResult, ts))
      entries1 ==
        IF locationExists THEN incrementEntry(entries, i, ts)
        ELSE push(entries, OutbreakLocation(location, 1, ts))
      logs1 ==
        IF locationExists
        THEN <<PotentialOutbreak(location, entries1[i].infectedCount, ts)>>
        ELSE <<NewInfection(individualAddress, location, ts)>>
      m == checkAndMergeOutbreaks(entries1, radius, location, ts)
  IN IF m.ok
     THEN [ok |-> TRUE, infectedIndividuals |-> individuals1,
           outbreakLocations |-> entries1, logs |-> logs1 \o m.logs]
     ELSE [ok |-> FALSE, error |-> m.error,
           infectedIndividuals |-> individuals1,
           outbreakLocations |-> entries1, logs |-> logs1 \o m.logs]

\* the body of `if (_testResult)`
reportPositive(individuals, entries, radius, individualAddress, location, testResult, ts) ==
  LET individuals1 == push(individuals,
          InfectedIndividual(individualAddress, location, testResult, ts))
      i == findLocation(entries, location, 1)
      locationExists == i > 0
      entries1 ==
        IF locationExists THEN incrementEntry(entries, i, ts)
        ELSE push(entries, OutbreakLocation(location, 1, ts))
      logs1 ==
        primaryEvent(locationExists, individualAddress, location,
                     IF locationExists THEN entries1[i].infectedCount ELSE 1,
                     ts)
      m == checkAndMergeOutbreaks(entries1, radius, location, ts)
  IN IF m.ok
     THEN [ok |-> TRUE, infectedIndividuals |-> individuals1,
           outbreakLocations |-> entries1, logs |-> logs1 \o m.logs]
     ELSE [ok |-> FALSE, error |-> m.error,
           infectedIndividuals |-> individuals1,
           outbreakLocations |-> entries1, logs |-> logs1 \o m.logs]

reportInfectionRun_IgnoresTestResult(individuals, entries, radius, individualAddress, location, testResult, ts) ==
  reportPositive(individuals, entries, radius, individualAddress, location,
                 testResult, ts)

reportInfectionRun(individuals, entries, radius, individualAddress, location, testResult, ts) ==
  IF ~testResult
  THEN [ok |-> TRUE, infectedIndividuals |-> individuals,
        outbreakLocations |-> entries, logs |-> <<>>]
  ELSE reportPositive(individuals, entries, radius, individualAddress,
                      location, testResult, ts)

(***************************************************************************)
(* checkProximity and reportNewLocation                                    *)
(***************************************************************************)
isCloser_OrEqual(distance, closestDistance) ==
  ~MagLess(closestDistance, NatToMag(distance))

\* distance < closestDistance
isCloser(distance, closestDistance) ==
  MagLess(NatToMag(distance), closestDistance)

\* the loop of checkProximity from entry i (0-based) on
RECURSIVE proximityLoop(_, _, _, _, _, _, _)
proximityLoop(entries, radius, newLocation, i, closestDistance, closestIndex, foundInRadius) ==
  IF i >= Len(entries)
  THEN [ok |-> TRUE, closestDistance |-> closestDistance,
        closestIndex |-> closestIndex, foundInRadius |-> foundInRadius]
  ELSE LET w == isWithinRadius(newLocation, entries[i + 1].location, radius)
       IN IF ~w.ok THEN Failed(w.error)
          ELSE IF w.inRadius /\ isCloser(w.distance, closestDistance)
          THEN proximityLoop(entries, radius, newLocation, i + 1,
                             NatToMag(w.distance), i, TRUE)
          ELSE proximityLoop(entries, radius, newLocation, i + 1,
                             closestDistance, closestIndex, foundInRadius)

checkProximity(entries, radius, newLocation) ==
  LET s == proximityLoop(entries, radius, newLocation, 0, Uint256Max, 0, FALSE)
  IN IF ~s.ok THEN s
     ELSE IF s.foundInRadius
     THEN [ok |-> TRUE, found |-> TRUE,
           location |-> entries[s.closestIndex + 1].location,
           infectedCount |-> entries[s.closestIndex + 1].infectedCount,
           distance |-> MagToNat(s.closestDistance)]
     ELSE [ok |-> TRUE, found |-> FALSE, location |-> <<>>,
           infectedCount |-> 0, distance |-> 0]

reportNewLocationRun_AlertOnly(entries, radius, sender, location, ts) ==
  LET p == checkProximity(entries, radius, location)
  IN IF ~p.ok THEN [ok |-> FALSE, error |-> p.error, logs |-> <<>>]
     ELSE IF p.found
     THEN [ok |-> TRUE,
           logs |-> <<ProximityAlert(sender, location, p.location, p.distance)>>]
     ELSE [ok |-> TRUE, logs |-> <<>>]

reportNewLocationRun(entries, radius, sender, location, ts) ==
  LET p == checkProximity(entries, radius, location)
  IN IF ~p.ok THEN [ok |-> FALSE, error |-> p.error, logs |-> <<>>]
     ELSE IF p.found
     THEN [ok |-> TRUE,
           logs |-> <<ProximityAlert(sender, location, p.location, p.distance),
                      PotentialOutbreak(p.location, p.infectedCount, ts)>>]
     ELSE [ok |-> TRUE, logs |-> <<>>]

(***************************************************************************)
(* Views                                                                   *)
(***************************************************************************)
getInfectedCount(individuals) == Len(individuals)

getOutbreakLocationsCount(entries) == Len(entries)

getAllOutbreakLocations_SkipsLast(entries) ==
  [locations |-> [i \in 1..Len(entries) |->
                    IF i < Len(entries) THEN entries[i].location ELSE <<>>],
   counts |-> [i \in 1..Len(entries) |->
                 IF i < Len(entries) THEN entries[i].infectedCount ELSE 0]]

getAllOutbreakLocations(entries) ==
  [locations |-> [i \in 1..Len(entries) |-> entries[i].location],
   counts |-> [i \in 1..Len(entries) |-> entries[i].infectedCount]]

outsideTimeThreshold_SkipsRecent(currentTime, timestamp, timeThreshold) ==
  currentTime - timestamp < timeThreshold

outsideTimeThreshold_AtBoundary(currentTime, timestamp, timeThreshold) ==
  currentTime - timestamp >= timeThreshold

\* currentTime - record.timestamp > _timeThreshold
outsideTimeThreshold(currentTime, timestamp, timeThreshold) ==
  currentTime - timestamp > timeThreshold

\* the loop of checkExposureRisk from record i (0-based) on
RECURSIVE exposureLoop(_, _, _, _, _, _, _)
exposureLoop(individuals, radius, userLocation, timeThreshold, currentTime, i, exposureCount) ==
  IF i >= Len(individuals)
  THEN [ok |-> TRUE, exposed |-> exposureCount > 0,
        exposureCount |-> exposureCount]
  ELSE IF currentTime < individuals[i + 1].timestamp THEN Failed(ErrPanic)
  ELSE IF outsideTimeThreshold(currentTime, individuals[i + 1].timestamp, timeThreshold)
  THEN exposureLoop(individuals, radius, userLocation, timeThreshold,
                    currentTime, i + 1, exposureCount)
  ELSE LET w == isWithinRadius(userLocation, individuals[i + 1].location,
                               radius)
       IN IF ~w.ok THEN Failed(w.error)
          ELSE exposureLoop(individuals, radius, userLocation, timeThreshold,
                            currentTime, i + 1,
                            IF w.inRadius THEN exposureCount + 1
                            ELSE exposureCount)

checkExposureRisk(individuals, radius, userLocation, timeThreshold, currentTime) ==
  exposureLoop(individuals, radius, userLocation, timeThreshold, currentTime,
               0, 0)

(***************************************************************************)
(* A failed require (or arithmetic panic) reverts the call: the storage    *)
(* keeps its value from before the call and the logs of the call are       *)
(* dropped.  lastCall is the receipt of the latest call: its arguments,    *)
(* whether it succeeded, and the notifications it emitted.                 *)
(***************************************************************************)
settle_KeepsWrites(before, ok, written) == written

settle(before, ok, written) == IF ok THEN written ELSE before

Receipt(op, sender, args, r, ret) ==
  [op |-> op, sender |-> sender, args |-> args, ok |-> r.ok,
   error |-> IF r.ok THEN "" ELSE r.error,
   ret |-> IF r.ok THEN ret ELSE <<>>,
   logs |-> settle(<<>>, r.ok, r.logs)]

\* the external call of a view: what it returns, and the logs it leaves
checkProximityCall_Alerts(entries, radius, newLocation, ts) ==
  LET p == checkProximity(entries, radius, newLocation)
  IN IF ~p.ok THEN [ok |-> FALSE, error |-> p.error, logs |-> <<>>]
     ELSE [ok |-> TRUE,
           ret |-> [found |-> p.found, location |-> p.location,
                    infectedCount |-> p.infectedCount,
                    distance |-> p.distance],
           logs |-> IF p.found
                    THEN <<PotentialOutbreak(p.location, p.infectedCount, ts)>>
                    ELSE <<>>]

checkProximityCall(entries, radius, newLocation, ts) ==
  LET p == checkProximity(entries, radius, newLocation)
  IN IF ~p.ok THEN [ok |-> FALSE, error |-> p.error, logs |-> <<>>]
     ELSE [ok |-> TRUE,
           ret |-> [found |-> p.found, location |-> p.location,
                    infectedCount |-> p.infectedCount,
                    distance |-> p.distance],
           logs |-> <<>>]

checkExposureRiskCall(individuals, radius, userLocation, timeThreshold, currentTime) ==
  LET e == checkExposureRisk(individuals, radius, userLocation,
                             timeThreshold, currentTime)
  IN IF ~e.ok THEN [ok |-> FALSE, error |-> e.error, logs |-> <<>>]
     ELSE [ok |-> TRUE,
           ret |-> [exposed |-> e.exposed, exposureCount |-> e.exposureCount],
           logs |-> <<>>]

NoCall == [op |-> "none", sender |-> "", args |-> <<>>, ok |-> TRUE,
           error |-> "", ret |-> <<>>, logs |-> <<>>]

constructor_OwnerUnset(sender, radius) ==
  [owner |-> "0x0", outbreakRadius |-> radius]

\* owner = msg.sender; outbreakRadius = _radius
constructor(sender, radius) == [owner |-> sender, outbreakRadius |-> radius]

onlyOwner_Anyone(sender, ownerAddress) == TRUE

\* require(msg.sender == owner, "Not authorized")
onlyOwner(sender, ownerAddress) == sender = ownerAddress

(***************************************************************************)
(* Specification                                                           *)
(***************************************************************************)
\* the contract after construction, with calculateDistance tabulated on the
\* given texts
Constructed(texts) ==
  \E creator \in Addresses, radius \in Radii :
    /\ owner = constructor(creator, radius).owner
    /\ outbreakRadius = constructor(creator, radius).outbreakRadius
    /\ infectedIndividuals = <<>>
    /\ outbreakLocations = <<>>
    /\ now = 0
    /\ distances = tabulateDistance(texts \X texts)
    /\ lastCall = [op |-> "constructor", sender |-> creator,
                   args |-> [radius |-> radius], ok |-> TRUE, error |-> "",
                   ret |-> <<>>, logs |-> <<>>]

\* no page of the frontend is open
NoFrontend == [page |-> "none"]

\* no second node follows the calls
NoReplica == [storage |-> <<>>, receipt |-> <<>>]

Init == Constructed(Locations)
  /\ replica = NoReplica /\ frontend = NoFrontend

\* the texts calls are made with: those calculateDistance is tabulated on
Texts == {pair[1] : pair \in DOMAIN distances}

ReportInfection ==
  \E individualAddress \in Individuals, location \in Texts,
     testResult \in BOOLEAN :
    LET r == reportInfectionRun(infectedIndividuals, outbreakLocations,
                                outbreakRadius, individualAddress, location,
                                testResult, now)
    IN /\ testResult => Len(infectedIndividuals) < MaxLedger
       /\ infectedIndividuals' =
            settle(infectedIndividuals, r.ok, r.infectedIndividuals)
       /\ outbreakLocations' =
            settle(outbreakLocations, r.ok, r.outbreakLocations)
       /\ lastCall' = Receipt("reportInfection", "",
                        [individualAddress |-> individualAddress,
                         location |-> location, testResult |-> testResult],
                        r, <<>>)
       /\ UNCHANGED <<owner, outbreakRadius, now, distances,
                      replica, frontend>>

SetOutbreakRadius ==
  \E sender \in Addresses, newRadius \in Radii :
    LET r == IF onlyOwner(sender, owner) THEN [ok |-> TRUE, logs |-> <<>>]
             ELSE [ok |-> FALSE, error |-> ErrAuth, logs |-> <<>>]
    IN /\ outbreakRadius' = settle(outbreakRadius, r.ok, newRadius)
       /\ lastCall' = Receipt("setOutbreakRadius", sender,
                              [newRadius |-> newRadius], r, <<>>)
       /\ UNCHANGED <<owner, infectedIndividuals, outbreakLocations, now,
                      distances, replica, frontend>>

ReportNewLocation ==
  \E sender \in Addresses, location \in Texts :
    LET r == reportNewLocationRun(outbreakLocations, outbreakRadius, sender,
                                  location, now)
    IN /\ lastCall' = Receipt("reportNewLocation", sender,
                              [location |-> location], r, <<>>)
       /\ UNCHANGED <<owner, outbreakRadius, infectedIndividuals,
                      outbreakLocations, now, distances, replica, frontend>>

\* a later block: block.timestamp grows
AdvanceTime ==
  /\ now < MaxTime
  /\ now' = now + 1
  /\ lastCall' = NoCall
  /\ UNCHANGED <<owner, outbreakRadius, infectedIndividuals,
                 outbreakLocations, distances, replica, frontend>>

CheckProximity ==
  \E location \in Texts :
    LET r == checkProximityCall(outbreakLocations, outbreakRadius, location,
                                now)
    IN /\ lastCall' = Receipt("checkProximity", "",
                              [newLocation |-> location], r,
                              IF r.ok THEN r.ret ELSE <<>>)
       /\ UNCHANGED <<owner, outbreakRadius, infectedIndividuals,
                      outbreakLocations, now, distances, replica, frontend>>

CheckExposureRisk ==
  \E location \in Texts, threshold \in Thresholds :
    LET r == checkExposureRiskCall(infectedIndividuals, outbreakRadius,
                                   location, threshold, now)
    IN /\ lastCall' = Receipt("checkExposureRisk", "",
                              [userLocation |-> location,
                               timeThreshold |-> threshold], r,
                              IF r.ok THEN r.ret ELSE <<>>)
       /\ UNCHANGED <<owner, outbreakRadius, infectedIndividuals,
                      outbreakLocations, now, distances, replica, frontend>>

GetInfectedCount ==
  /\ lastCall' = Receipt("getInfectedCount", "", <<>>,
                         [ok |-> TRUE, logs |-> <<>>],
                         getInfectedCount(infectedIndividuals))
  /\ UNCHANGED <<owner, outbreakRadius, infectedIndividuals,
                 outbreakLocations, now, distances, replica, frontend>>

GetOutbreakLocationsCount ==
  /\ lastCall' = Receipt("getOutbreakLocationsCount", "", <<>>,
                         [ok |-> TRUE, logs |-> <<>>],
                         getOutbreakLocationsCount(outbreakLocations))
  /\ UNCHANGED <<owner, outbreakRadius, infectedIndividuals,
                 outbreakLocations, now, distances, replica, frontend>>

GetAllOutbreakLocations ==
  /\ lastCall' = Receipt("getAllOutbreakLocations", "", <<>>,
                         [ok |-> TRUE, logs |-> <<>>],
                         getAllOutbreakLocations(outbreakLocations))
  /\ UNCHANGED <<owner, outbreakRadius, infectedIndividuals,
                 outbreakLocations, now, distances, replica, frontend>>

Next ==
  \/ ReportInfection
  \/ ReportNewLocation
  \/ SetOutbreakRadius
  \/ AdvanceTime

Spec == Init /\ [][Next]_vars

\* the contract with its views called as well
NextViews ==
  \/ ReportInfection
  \/ ReportNewLocation
  \/ SetOutbreakRadius
  \/ AdvanceTime
  \/ CheckProximity
  \/ CheckExposureRisk
  \/ GetInfectedCount
  \/ GetOutbreakLocationsCount
  \/ GetAllOutbreakLocations

SpecViews == Init /\ [][NextViews]_vars

\* parseCoordinate on its own: the texts it is applied to are a latitude and
\* a longitude, each a sign, an integer part and a fraction part, joined by
\* a comma
Signs == {<<>>, <<"-">>}
IntegerParts == {<<"0">>, <<"1", "0">>, <<"3", "5">>, <<"7", "4">>,
                 <<"1", "3", "9">>}
FractionParts == {<<>>, <<".", "0">>, <<".", "5">>,
                  <<".", "6", "8", "9", "5">>, <<".", "0", "0", "6", "0">>,
                  <<".", "6", "9", "1", "7">>,
                  <<".", "0", "0", "0", "0", "0", "0">>,
                  <<".", "0", "0", "0", "0", "0", "1">>}
LatitudeTexts ==
  {Text(sign \o int \o frac) :
     sign \in Signs, int \in IntegerParts, frac \in FractionParts}
LongitudeTexts ==
  {Text(<<"0">>), Text(<<"1", "3", "9", ".", "6", "9", "1", "7">>)}

\* every text of one, two or three of these characters
Chars == {",", "-", ".", "1", "a"}
ShortTexts ==
  {Text(<<a>>) : a \in Chars}
    \cup {Text(<<a, b>>) : a \in Chars, b \in Chars}
    \cup {Text(<<a, b, c>>) : a \in Chars, b \in Chars, c \in Chars}
\* "1,2,3", "1.2.3,0", "0,1.2.3", "1-,1", "1,1-", "--1,1", "1,a1", "1.5,-2.5"
LongerTexts ==
  {LocBad,
   Text(<<"1", ",", "2", ",", "3">>),
   Text(<<"1", ".", "2", ".", "3", ",", "0">>),
   Text(<<"0", ",", "1", ".", "2", ".", "3">>),
   Text(<<"1", "-", ",", "1">>),
   Text(<<"1", ",", "1", "-">>),
   Text(<<"-", "-", "1", ",", "1">>),
   Text(<<"1", ",", "a", "1">>),
   Text(<<"1", ".", "5", ",", "-", "2", ".", "5">>)}
ParserTexts ==
  {lat \o <<Comma>> \o lon : lat \in LatitudeTexts, lon \in LongitudeTexts}
    \cup ShortTexts \cup LongerTexts

ParseCoordinate ==
  \E location \in ParserTexts :
    LET c == parseCoordinate(location)
    IN /\ lastCall' = [op |-> "parseCoordinate", sender |-> "",
                       args |-> [location |-> location], ok |-> c.ok,
                       error |-> IF c.ok THEN "" ELSE c.error,
                       ret |-> IF c.ok
                               THEN [latitude |-> c.latitude,
                                     longitude |-> c.longitude]
                               ELSE <<>>,
                       logs |-> <<>>]
       /\ UNCHANGED <<owner, outbreakRadius, infectedIndividuals,
                      outbreakLocations, now, distances, replica, frontend>>

NextParser == ParseCoordinate

SpecParser == Init /\ [][NextParser]_vars

\* the contract called with two texts a millionth of a degree apart
\* "10.000000,20.000000"
LocTen == Text(<<"1", "0", ".", "0", "0", "0", "0", "0", "0", ",",
                 "2", "0", ".", "0", "0", "0", "0", "0", "0">>)
\* "10.000001,20.000001"
LocTenPlus == Text(<<"1", "0", ".", "0", "0", "0", "0", "0", "1", ",",
                     "2", "0", ".", "0", "0", "0", "0", "0", "1">>)

InitExample == Constructed({LocTen, LocTenPlus})
  /\ replica = NoReplica /\ frontend = NoFrontend

SpecExample == InitExample /\ [][NextViews]_vars

\* calculateDistance, its cosine factor and sqrt on their own
\* "0,0", "1,1", "0.5,0.5", "45,0", "45,10", "-45,10", "0,10", "0,90",
\* "60,90", "90,0"
DistanceTexts ==
  {Text(<<"0", ",", "0">>),
   Text(<<"1", ",", "1">>),
   Text(<<"0", ".", "5", ",", "0", ".", "5">>),
   Text(<<"4", "5", ",", "0">>),
   Text(<<"4", "5", ",", "1", "0">>),
   Text(<<"-", "4", "5", ",", "1", "0">>),
   Text(<<"0", ",", "1", "0">>),
   Text(<<"0", ",", "9", "0">>),
   Text(<<"6", "0", ",", "9", "0">>),
   Text(<<"9", "0", ",", "0">>)}

\* arguments of sqrt: small ones, and 999999^2 - 1, 999999^2, 10^12 - 1, 10^12
SqrtInputs ==
  {I(n) : n \in -2..50}
    \cup {Mk(FALSE, <<0, 9800, 9999>>), Mk(FALSE, <<1, 9800, 9999>>),
          Mk(FALSE, <<9999, 9999, 9999>>), Mk(FALSE, <<0, 0, 0, 1>>)}

InitDistance == Constructed(DistanceTexts)
  /\ replica = NoReplica /\ frontend = NoFrontend

CalculateDistance ==
  \E loc1 \in DistanceTexts, loc2 \in DistanceTexts :
    LET d == distances[<<loc1, loc2>>]
    IN /\ lastCall' = [op |-> "calculateDistance", sender |-> "",
                       args |-> [loc1 |-> loc1, loc2 |-> loc2], ok |-> d.ok,
                       error |-> IF d.ok THEN "" ELSE d.error,
                       ret |-> IF d.ok THEN d.distance ELSE <<>>,
                       logs |-> <<>>]
       /\ UNCHANGED <<owner, outbreakRadius, infectedIndividuals,
                      outbreakLocations, now, distances, replica, frontend>>

CosLat1 ==
  \E location \in DistanceTexts :
    LET latitude == parseCoordinate(location).latitude
    IN /\ lastCall' = [op |-> "cosLat1", sender |-> "",
                       args |-> [latitude |-> latitude], ok |-> TRUE,
                       error |-> "", ret |-> IntOf(cosLat1(latitude)),
                       logs |-> <<>>]
       /\ UNCHANGED <<owner, outbreakRadius, infectedIndividuals,
                      outbreakLocations, now, distances, replica, frontend>>

Sqrt ==
  \E x \in SqrtInputs :
    /\ lastCall' = [op |-> "sqrt", sender |-> "", args |-> [x |-> x],
                    ok |-> TRUE, error |-> "", ret |-> sqrt(x),
                    logs |-> <<>>]
    /\ UNCHANGED <<owner, outbreakRadius, infectedIndividuals,
                   outbreakLocations, now, distances, replica, frontend>>

NextDistance ==
  \/ CalculateDistance
  \/ CosLat1
  \/ Sqrt

SpecDistance == InitDistance /\ [][NextDistance]_vars

(***************************************************************************)
(* Two nodes executing the same calls.  Every node of the chain runs each  *)
(* transaction of a block on its own copy of the contract, with the        *)
(* block's timestamp; its own clock runs apart from it.  The variables of  *)
(* the contract are the first node's copy, replica is the second node's    *)
(* copy and its receipt of the latest call.                                *)
(***************************************************************************)
StorageRecord ==
  [owner |-> owner, outbreakRadius |-> outbreakRadius,
   infectedIndividuals |-> infectedIndividuals,
   outbreakLocations |-> outbreakLocations]

blockTimestamp_NodeClock(timestamp, clock) == clock

\* block.timestamp: the time the block carries, not the executing node's
blockTimestamp(timestamp, clock) == timestamp

\* one call run on one node's copy: the copy and the receipt it leaves
execute(st, op, sender, args, timestamp, clock) ==
  LET ts == blockTimestamp(timestamp, clock)
      read(r, ret) == [storage |-> st,
                       receipt |-> Receipt(op, sender, args, r, ret)]
      done == [ok |-> TRUE, logs |-> <<>>]
  IN CASE op = "reportInfection" ->
            LET r == reportInfectionRun(st.infectedIndividuals,
                       st.outbreakLocations, st.outbreakRadius,
                       args.individualAddress, args.location,
                       args.testResult, ts)
            IN [storage |->
                  [st EXCEPT
                     !.infectedIndividuals =
                        settle(st.infectedIndividuals, r.ok,
                               r.infectedIndividuals),
                     !.outbreakLocations =
                        settle(st.outbreakLocations, r.ok,
                               r.outbreakLocations)],
                receipt |-> Receipt(op, sender, args, r, <<>>)]
       [] op = "reportNewLocation" ->
            read(reportNewLocationRun(st.outbreakLocations,
                   st.outbreakRadius, sender, args.location, ts), <<>>)
       [] op = "setOutbreakRadius" ->
            LET r == IF onlyOwner(sender, st.owner) THEN done
                     ELSE [ok |-> FALSE, error |-> ErrAuth, logs |-> <<>>]
            IN [storage |->
                  [st EXCEPT !.outbreakRadius =
                               settle(st.outbreakRadius, r.ok,
                                      args.newRadius)],
                receipt |-> Receipt(op, sender, args, r, <<>>)]
       [] op = "checkProximity" ->
            LET r == checkProximityCall(st.outbreakLocations,
                       st.outbreakRadius, args.newLocation, ts)
            IN read(r, IF r.ok THEN r.ret ELSE <<>>)
       [] op = "checkExposureRisk" ->
            LET r == checkExposureRiskCall(st.infectedIndividuals,
                       st.outbreakRadius, args.userLocation,
                       args.timeThreshold, ts)
            IN read(r, IF r.ok THEN r.ret ELSE <<>>)
       [] op = "getInfectedCount" ->
            read(done, getInfectedCount(st.infectedIndividuals))
       [] op = "getOutbreakLocationsCount" ->
            read(done, getOutbreakLocationsCount(st.outbreakLocations))
       [] op = "getAllOutbreakLocations" ->
            read(done, getAllOutbreakLocations(st.outbreakLocations))

\* the same call, in the same block, on both nodes; the second node's clock
\* is ahead of the block's time
Replicated(op, sender, args) ==
  \E first \in {execute(StorageRecord, op, sender, args, now, now)},
     second \in {execute(replica.storage, op, sender, args, now, now + 1)} :
     /\ owner' = first.storage.owner
     /\ outbreakRadius' = first.storage.outbreakRadius
     /\ infectedIndividuals' = first.storage.infectedIndividuals
     /\ outbreakLocations' = first.storage.outbreakLocations
     /\ lastCall' = first.receipt
     /\ replica' = [storage |-> second.storage, receipt |-> second.receipt]
     /\ UNCHANGED <<now, distances, frontend>>

InitReplicas ==
  /\ Constructed(Locations)
  /\ frontend = NoFrontend
  /\ replica = [storage |-> StorageRecord, receipt |-> lastCall]

ReplicatedReportInfection ==
  \E individualAddress \in Individuals, location \in Texts,
     testResult \in BOOLEAN :
    /\ testResult => Len(infectedIndividuals) < MaxLedger
    /\ Replicated("reportInfection", "",
                  [individualAddress |-> individualAddress,
                   location |-> location, testResult |-> testResult])

ReplicatedReportNewLocation ==
  \E sender \in Addresses, location \in Texts :
    Replicated("reportNewLocation", sender, [location |-> location])

ReplicatedSetOutbreakRadius ==
  \E sender \in Addresses, newRadius \in Radii :
    Replicated("setOutbreakRadius", sender, [newRadius |-> newRadius])

ReplicatedCheckProximity ==
  \E location \in Texts :
    Replicated("checkProximity", "", [newLocation |-> location])

ReplicatedCheckExposureRisk ==
  \E location \in Texts, threshold \in Thresholds :
    Replicated("checkExposureRisk", "",
               [userLocation |-> location, timeThreshold |-> threshold])

ReplicatedGetInfectedCount == Replicated("getInfectedCount", "", <<>>)

ReplicatedGetOutbreakLocationsCount ==
  Replicated("getOutbreakLocationsCount", "", <<>>)

ReplicatedGetAllOutbreakLocations ==
  Replicated("getAllOutbreakLocations", "", <<>>)

\* a later block, on both nodes
ReplicatedAdvanceTime ==
  /\ now < MaxTime
  /\ now' = now + 1
  /\ lastCall' = NoCall
  /\ replica' = [replica EXCEPT !.receipt = NoCall]
  /\ UNCHANGED <<owner, outbreakRadius, infectedIndividuals,
                 outbreakLocations, distances, frontend>>

NextReplicas ==
  \/ ReplicatedReportInfection
  \/ ReplicatedReportNewLocation
  \/ ReplicatedSetOutbreakRadius
  \/ ReplicatedCheckProximity
  \/ ReplicatedCheckExposureRisk
  \/ ReplicatedGetInfectedCount
  \/ ReplicatedGetOutbreakLocationsCount
  \/ ReplicatedGetAllOutbreakLocations
  \/ ReplicatedAdvanceTime

SpecReplicas == InitReplicas /\ [][NextReplicas]_vars

(***************************************************************************)
(* Reports about several individuals: _individualAddress is any address    *)
(***************************************************************************)
ReportInfectionBy ==
  \E individualAddress \in Addresses, location \in Texts,
     testResult \in BOOLEAN :
    LET r == reportInfectionRun(infectedIndividuals, outbreakLocations,
                                outbreakRadius, individualAddress, location,
                                testResult, now)
    IN /\ testResult => Len(infectedIndividuals) < MaxLedger
       /\ infectedIndividuals' =
            settle(infectedIndividuals, r.ok, r.infectedIndividuals)
       /\ outbreakLocations' =
            settle(outbreakLocations, r.ok, r.outbreakLocations)
       /\ lastCall' = Receipt("reportInfection", "",
                        [individualAddress |-> individualAddress,
                         location |-> location, testResult |-> testResult],
                        r, <<>>)
       /\ UNCHANGED <<owner, outbreakRadius, now, distances,
                      replica, frontend>>

NextReporters ==
  \/ ReportInfectionBy
  \/ ReportNewLocation
  \/ SetOutbreakRadius
  \/ AdvanceTime

SpecReporters == Init /\ [][NextReporters]_vars

(***************************************************************************)
(* The frontend.  Its pages talk to one deployed contract; frontend holds  *)
(* the state of the JavaScript under study, each await being a step.       *)
(***************************************************************************)
\* everything but the frontend
chainVars ==
  <<owner, outbreakRadius, infectedIndividuals, outbreakLocations, now,
    lastCall, distances, replica>>

\* a deployed contract no call has been made on
Deployed == Constructed({}) /\ replica = NoReplica

(***************************************************************************)
(* retry(fn, options)                                                      *)
(***************************************************************************)
RetryCounts == 0..3
InitialDelays == {250, 1000}
Factors == {1, 2, 3}
Results == {"r1", "r2"}
Errors == {"e1", "e2"}

\* Math.pow(factor, attempt)
RECURSIVE pow(_, _)
pow(factor, attempt) ==
  IF attempt = 0 THEN 1 ELSE factor * pow(factor, attempt - 1)

\* const delay = initialDelay * Math.pow(factor, attempt)
backoffDelay(initialDelay, factor, attempt) ==
  initialDelay * pow(factor, attempt)

moreAttempts_Exclusive(attempt, maxRetries) == attempt < maxRetries

\* for (...; attempt <= maxRetries; ...)
moreAttempts(attempt, maxRetries) == attempt <= maxRetries

\* the head of the loop: fn is invoked once more, or the loop is left and
\* lastError thrown
loopHead(r) ==
  IF moreAttempts(r.attempt, r.maxRetries)
  THEN [r EXCEPT !.pc = "fn",
                 !.invocations = Append(@, [attempt |-> r.attempt,
                                            outcome |-> "pending",
                                            result |-> "undefined"])]
  ELSE [r EXCEPT !.pc = "done", !.state = "rejected",
                 !.value = r.lastError]

\* retry(fn, {maxRetries, initialDelay, factor}) up to its first await
retry(maxRetries, initialDelay, factor) ==
  loopHead([page |-> "retry", maxRetries |-> maxRetries,
            initialDelay |-> initialDelay, factor |-> factor,
            attempt |-> 0, lastError |-> "undefined", pc |-> "loop",
            invocations |-> <<>>, waits |-> <<>>, state |-> "pending",
            value |-> "undefined"])

InitRetry ==
  /\ Deployed
  /\ \E maxRetries \in RetryCounts, initialDelay \in InitialDelays,
        factor \in Factors :
       frontend = retry(maxRetries, initialDelay, factor)

\* the pending invocation settles with the given outcome
settled(r, outcome, result) ==
  [r.invocations EXCEPT ![Len(r.invocations)].outcome = outcome,
                        ![Len(r.invocations)].result = result]

\* return await fn(): fn's promise fulfils
FnFulfils ==
  /\ frontend.page = "retry" /\ frontend.pc = "fn"
  /\ \E result \in Results :
       frontend' = [frontend EXCEPT !.invocations =
                                       settled(frontend, "fulfilled", result),
                                    !.pc = "done", !.state = "resolved",
                                    !.value = result]
  /\ UNCHANGED chainVars

\* catch (error): fn's promise rejects with an Error
FnRejects ==
  /\ frontend.page = "retry" /\ frontend.pc = "fn"
  /\ \E error \in Errors :
       LET caught == [frontend EXCEPT !.invocations =
                                         settled(frontend, "rejected", error),
                                      !.lastError = error]
       IN frontend' =
            IF caught.attempt < caught.maxRetries
            THEN [caught EXCEPT !.pc = "timer",
                                !.waits = Append(@,
                                   backoffDelay(caught.initialDelay,
                                                caught.factor,
                                                caught.attempt))]
            ELSE loopHead([caught EXCEPT !.attempt = @ + 1])
  /\ UNCHANGED chainVars

\* the setTimeout of the backoff fires
TimerFires ==
  /\ frontend.page = "retry" /\ frontend.pc = "timer"
  /\ frontend' = loopHead([frontend EXCEPT !.attempt = @ + 1])
  /\ UNCHANGED chainVars

NextRetry ==
  \/ FnFulfils
  \/ FnRejects
  \/ TimerFires

SpecRetry == InitRetry /\ [][NextRetry]_vars

(***************************************************************************)
(* initWeb3 and initializeContract, started by a caller that found the     *)
(* module-level contract unset and awaits initWeb3()                       *)
(***************************************************************************)
Providers == {"ethereum", "legacy", "local"}
Strategies == 1..4

\* initWeb3() up to its first await: window.ethereum awaits the account
\* request, window.web3 goes on to getAccounts, the local provider awaits
\* checkConnection
initWeb3(provider) ==
  [page |-> "initWeb3", provider |-> provider, web3 |-> TRUE,
   contract |-> "undefined",
   pc |-> IF provider = "legacy" THEN "getAccounts" ELSE "provider",
   promise |-> "pending", returned |-> "none",
   initializeContract |-> "notCalled", strategy |-> 0,
   caller |-> "awaiting"]

InitInitWeb3 ==
  /\ Deployed
  /\ \E provider \in Providers : frontend = initWeb3(provider)

\* throw new Error(`Blockchain connection error: ...`)
rejected(f) == [f EXCEPT !.pc = "thrown", !.promise = "rejected"]

\* initializeContract(); return { web3, accounts, networkId, contract }:
\* initializeContract runs up to the await of its first strategy and its
\* promise is dropped; the object returned holds contract as it is now
returnAfterInitializeContract(f) ==
  [f EXCEPT !.pc = "returned", !.promise = "resolved",
            !.returned = f.contract,
            !.initializeContract = "pending", !.strategy = 1]

\* a continuation of the caller is queued: it runs before any answer of the
\* network is handled
microtaskQueued(f) == f.caller = "awaiting" /\ f.promise # "pending"

\* await window.ethereum.request(...) / await checkConnection()
ProviderAnswers ==
  /\ frontend.page = "initWeb3" /\ frontend.pc = "provider"
  /\ \E ok \in BOOLEAN :
       frontend' = IF ok THEN [frontend EXCEPT !.pc = "getAccounts"]
                   ELSE rejected(frontend)
  /\ UNCHANGED chainVars

\* accounts = await web3.eth.getAccounts()
AccountsAnswer ==
  /\ frontend.page = "initWeb3" /\ frontend.pc = "getAccounts"
  /\ \E ok \in BOOLEAN :
       frontend' = IF ok THEN [frontend EXCEPT !.pc = "getId"]
                   ELSE rejected(frontend)
  /\ UNCHANGED chainVars

\* networkId = await web3.eth.net.getId(); initializeContract(); return ...
NetworkIdAnswers ==
  /\ frontend.page = "initWeb3" /\ frontend.pc = "getId"
  /\ \E ok \in BOOLEAN :
       frontend' = IF ok THEN returnAfterInitializeContract(frontend)
                   ELSE rejected(frontend)
  /\ UNCHANGED chainVars

\* the end of initializeContract: the contract is created, or it throws
initializeContractEnds(f, created) ==
  IF created
  THEN [f EXCEPT !.contract = "instance", !.initializeContract = "fulfilled"]
  ELSE [f EXCEPT !.initializeContract = "rejected"]

\* const address = await strategy(): the address is valid and the contract
\* is created (or new web3.eth.Contract throws), or the next strategy is
\* tried, or none is left and initializeContract throws
StrategyAnswers ==
  /\ frontend.page = "initWeb3"
  /\ frontend.initializeContract = "pending"
  /\ ~microtaskQueued(frontend)
  /\ \E valid \in BOOLEAN, created \in BOOLEAN :
       frontend' =
         IF valid THEN initializeContractEnds(frontend, created)
         ELSE IF frontend.strategy + 1 \in Strategies
         THEN [frontend EXCEPT !.strategy = @ + 1]
         ELSE initializeContractEnds(frontend, FALSE)
  /\ UNCHANGED chainVars

\* the caller goes on after `await initWeb3()`: contract.methods... throws a
\* TypeError when contract is undefined
CallerResumes ==
  /\ frontend.page = "initWeb3"
  /\ microtaskQueued(frontend)
  /\ frontend' =
       [frontend EXCEPT !.caller =
          IF frontend.promise = "rejected" THEN "initFailed"
          ELSE IF frontend.contract = "undefined" THEN "typeError"
          ELSE "usesContract"]
  /\ UNCHANGED chainVars

NextInitWeb3 ==
  \/ ProviderAnswers
  \/ AccountsAnswer
  \/ NetworkIdAnswers
  \/ StrategyAnswers
  \/ CallerResumes

SpecInitWeb3 == InitInitWeb3 /\ [][NextInitWeb3]_vars

(***************************************************************************)
(* The event subscriptions of App: createSafeEventSubscription for the     *)
(* three events, the callbacks of the web3 emitters, the cleanup           *)
(***************************************************************************)
EventNames == <<"NewInfection", "PotentialOutbreak", "ProximityAlert">>
Subscribed == DOMAIN EventNames
Contracts == {"undefined", "mock", "real"}

\* the object returned when no web3 subscription is made: isActive is the
\* boolean false (true for the mock contract)
withoutSubscription(isActive) ==
  [isActive |-> isActive, active |-> FALSE, listening |-> FALSE,
   unsubscribed |-> FALSE, delivered |-> FALSE]

\* createSafeEventSubscription(contract, eventName, ...): with a real
\* contract and an event that can be subscribed to, the object's isActive is
\* a function reading the closure's flag, false until 'connected'
createSafeEventSubscription(contract, subscribes) ==
  IF contract = "undefined" THEN withoutSubscription("false")
  ELSE IF contract = "mock" THEN withoutSubscription("true")
  ELSE IF ~subscribes THEN withoutSubscription("false")
  ELSE [isActive |-> "function", active |-> FALSE, listening |-> TRUE,
        unsubscribed |-> FALSE, delivered |-> FALSE]

\* the value of the expression !x
not(x) == x \in {"false", "undefined"}

\* !newInfectionSub.isActive || !outbreakSub.isActive ||
\* !proximityAlertSub.isActive
anyInactive(subs) == \E i \in DOMAIN subs : not(subs[i].isActive)

\* useState(false) for usingEventPolling; no subscription yet
InitApp ==
  /\ Deployed
  /\ frontend = [page |-> "app", subs |-> <<>>, usingEventPolling |-> FALSE]

\* initializeBlockchain after `const { contract } = await initializeEthers()`
InitializeBlockchain ==
  /\ frontend.page = "app" /\ frontend.subs = <<>>
  /\ \E contract \in Contracts, subscribes \in [Subscribed -> BOOLEAN] :
       LET subs == [i \in Subscribed |->
                      createSafeEventSubscription(contract, subscribes[i])]
       IN frontend' = [frontend EXCEPT !.subs = subs,
                                       !.usingEventPolling = anyInactive(subs)]
  /\ UNCHANGED chainVars

\* .on('connected', ...): isActive = true
Connected ==
  /\ frontend.page = "app"
  /\ \E i \in DOMAIN frontend.subs :
       /\ frontend.subs[i].listening
       /\ frontend' = [frontend EXCEPT !.subs[i].active = TRUE]
  /\ UNCHANGED chainVars

\* .on('data', ...): onData(event)
Data ==
  /\ frontend.page = "app"
  /\ \E i \in DOMAIN frontend.subs :
       /\ frontend.subs[i].listening
       /\ frontend' = [frontend EXCEPT !.subs[i].delivered = TRUE]
  /\ UNCHANGED chainVars

\* .on('error', ...): isActive = false
SubscriptionError ==
  /\ frontend.page = "app"
  /\ \E i \in DOMAIN frontend.subs :
       /\ frontend.subs[i].listening
       /\ frontend' = [frontend EXCEPT !.subs[i].active = FALSE]
  /\ UNCHANGED chainVars

\* unsubscribe(): the web3 subscription is ended the way its version allows
\* (unsubscribe, removeAllListeners, or removeSubscription of the request
\* manager, which leaves the listeners on the emitter; a throw is caught),
\* then isActive = false
unsubscribe(sub, listenersStay) ==
  IF sub.isActive # "function" THEN sub
  ELSE [sub EXCEPT !.active = FALSE, !.unsubscribed = TRUE,
                   !.listening = @ /\ listenersStay]

\* cleanupListenersRef.current(): the three unsubscribe calls
Cleanup ==
  /\ frontend.page = "app" /\ frontend.subs # <<>>
  /\ \E listenersStay \in [Subscribed -> BOOLEAN] :
       frontend' = [frontend EXCEPT !.subs =
                      [i \in Subscribed |->
                         unsubscribe(frontend.subs[i], listenersStay[i])]]
  /\ UNCHANGED chainVars

NextApp ==
  \/ InitializeBlockchain
  \/ Connected
  \/ Data
  \/ SubscriptionError
  \/ Cleanup

SpecApp == InitApp /\ [][NextApp]_vars

(***************************************************************************)
(* Properties                                                              *)
(***************************************************************************)
WellFormed(location) == parseCoordinate(location).ok

PositiveReport(call) ==
  call.op = "reportInfection" /\ call.args.testResult

Locs(seq) == [k \in 1..Len(seq) |-> seq[k].location]

\* the distinct elements of a sequence in the order of their first occurrence
RECURSIVE FirstSeen(_)
FirstSeen(seq) ==
  IF seq = <<>> THEN <<>>
  ELSE LET front == SubSeq(seq, 1, Len(seq) - 1)
           last == seq[Len(seq)]
       IN IF \E k \in 1..Len(front) : front[k] = last THEN FirstSeen(front)
          ELSE Append(FirstSeen(front), last)

\* C1: a positive reportInfection whose location text the parser rejects
\* fails in every state (also on an empty registry), leaving the ledger and
\* the entries as they were and emitting nothing.
C1_MalformedPositiveReportFails ==
  (PositiveReport(lastCall) /\ ~WellFormed(lastCall.args.location))
    => (~lastCall.ok /\ lastCall.logs = <<>>)

\* C2: every location stored in the ledger or in an entry is accepted by the
\* parser, so checkProximity and checkExposureRisk with a well-formed query
\* never fail because of a stored record.
C2_StoredLocationsAreWellFormed ==
  /\ \A k \in 1..Len(infectedIndividuals) :
       WellFormed(infectedIndividuals[k].location)
  /\ \A k \in 1..Len(outbreakLocations) :
       WellFormed(outbreakLocations[k].location)
  /\ \A q \in Locations : WellFormed(q) =>
       /\ checkProximity(outbreakLocations, outbreakRadius, q).ok
       /\ \A t \in Thresholds :
            checkExposureRisk(infectedIndividuals, outbreakRadius, q, t,
                              now).ok

\* C3: reportInfection with positive = false succeeds for every identity and
\* every location text, leaves administrator, radius, entries and ledger
\* unchanged and emits no notification.
C3_NegativeReportIsNoOp ==
  [][(lastCall'.op = "reportInfection" /\ ~lastCall'.args.testResult)
       => (lastCall'.ok /\ lastCall'.logs = <<>> /\ UNCHANGED storage)]_vars

C3_Witness ==
  /\ lastCall.op = "reportInfection" /\ ~lastCall.args.testResult
  /\ lastCall.args.location = LocBad
  /\ lastCall.ok
  /\ Len(outbreakLocations) > 0

\* C4: a successful positive report at a location text that no entry holds
\* appends one record {identity, location, now} to the ledger and one entry
\* {location, 1, now} to the entry list, leaves the existing entries as they
\* were and emits NewInfection(identity, location, now).
C4_ReportAtNewLocation ==
  [][(/\ PositiveReport(lastCall') /\ lastCall'.ok
      /\ \A k \in 1..Len(outbreakLocations) :
           outbreakLocations[k].location # lastCall'.args.location)
       => /\ infectedIndividuals' =
               Append(infectedIndividuals,
                      [individualAddress |-> lastCall'.args.individualAddress,
                       location |-> lastCall'.args.location,
                       testResult |-> TRUE, timestamp |-> now])
          /\ outbreakLocations' =
               Append(outbreakLocations,
                      [location |-> lastCall'.args.location,
                       infectedCount |-> 1, timestamp |-> now])
          /\ Len(lastCall'.logs) >= 1
          /\ \A k \in 1..Len(lastCall'.logs) :
               lastCall'.logs[k].name = "NewInfection" <=> k = 1
          /\ lastCall'.logs[1] =
               NewInfection(lastCall'.args.individualAddress,
                            lastCall'.args.location, now)]_vars

C4_Witness ==
  /\ PositiveReport(lastCall) /\ lastCall.ok
  /\ Len(outbreakLocations) = 2
  /\ outbreakLocations[2].location = lastCall.args.location
  /\ outbreakLocations[2].infectedCount = 1
  /\ outbreakLocations[1].timestamp < now

\* C5: a successful positive report at a location text equal to an entry's
\* appends one ledger record, adds no entry, adds exactly 1 to that entry's
\* infectedCount, sets its lastUpdatedAt to now, leaves the other entries as
\* they were and emits PotentialOutbreak(location, newCount, now) and no
\* NewInfection; one text reported twice on an empty registry gives one
\* entry with infectedCount 2 and a ledger of length 2.
C5_ReportAtKnownLocation ==
  /\ [][\A i \in 1..Len(outbreakLocations) :
          (/\ PositiveReport(lastCall') /\ lastCall'.ok
           /\ outbreakLocations[i].location = lastCall'.args.location)
            => /\ infectedIndividuals' =
                    Append(infectedIndividuals,
                           [individualAddress |->
                              lastCall'.args.individualAddress,
                            location |-> lastCall'.args.location,
                            testResult |-> TRUE, timestamp |-> now])
               /\ Len(outbreakLocations') = Len(outbreakLocations)
               /\ outbreakLocations'[i] =
                    [location |-> outbreakLocations[i].location,
                     infectedCount |-> outbreakLocations[i].infectedCount + 1,
                     timestamp |-> now]
               /\ \A j \in 1..Len(outbreakLocations) :
                    j # i => outbreakLocations'[j] = outbreakLocations[j]
               /\ Len(lastCall'.logs) >= 1
               /\ lastCall'.logs[1] =
                    PotentialOutbreak(lastCall'.args.location,
                                      outbreakLocations[i].infectedCount + 1,
                                      now)
               /\ \A k \in 1..Len(lastCall'.logs) :
                    lastCall'.logs[k].name # "NewInfection"]_vars
  /\ []((/\ Len(infectedIndividuals) = 2
         /\ infectedIndividuals[1].location = infectedIndividuals[2].location)
          => /\ Len(outbreakLocations) = 1
             /\ outbreakLocations[1].infectedCount = 2)

C5_Witness ==
  /\ PositiveReport(lastCall) /\ lastCall.ok
  /\ Len(infectedIndividuals) = 2
  /\ Len(outbreakLocations) = 1
  /\ outbreakLocations[1].infectedCount = 2
  /\ outbreakLocations[1].timestamp = now
  /\ infectedIndividuals[1].timestamp < now

\* C6: no two outbreak entries hold the same location text.
C6_UniqueEntryLocations ==
  \A i, j \in 1..Len(outbreakLocations) :
    i # j => outbreakLocations[i].location # outbreakLocations[j].location

C6_Witness ==
  /\ Len(infectedIndividuals) = 2
  /\ infectedIndividuals[1].location = infectedIndividuals[2].location
  /\ infectedIndividuals[1].timestamp < infectedIndividuals[2].timestamp
  /\ Len(outbreakLocations) = 1

\* C7: the ledger is append-only: no step shortens it and no step changes a
\* record already written.
C7_LedgerAppendOnly ==
  [][/\ Len(infectedIndividuals') >= Len(infectedIndividuals)
     /\ \A k \in 1..Len(infectedIndividuals) :
          infectedIndividuals'[k] = infectedIndividuals[k]]_vars

C7_Witness ==
  /\ Len(infectedIndividuals) = 2
  /\ infectedIndividuals[1] # infectedIndividuals[2]
  /\ PositiveReport(lastCall) /\ lastCall.ok

\* C8: no step decreases the infectedCount of an outbreak entry.
C8_InfectedCountNeverDecreases ==
  [][\A i \in 1..Len(outbreakLocations) :
       \E j \in 1..Len(outbreakLocations') :
         /\ outbreakLocations'[j].location = outbreakLocations[i].location
         /\ outbreakLocations'[j].infectedCount
              >= outbreakLocations[i].infectedCount]_vars

C8_Witness ==
  /\ PositiveReport(lastCall) /\ lastCall.ok
  /\ \E i \in 1..Len(outbreakLocations) :
       /\ outbreakLocations[i].location = lastCall.args.location
       /\ outbreakLocations[i].infectedCount = 2

\* C9: getAllOutbreakLocations returns two arrays as long as the entry list,
\* position i holding the location and the current infectedCount of the i-th
\* entry; the locations are the first-seen distinct positively reported
\* texts in order, and no step deletes, reorders or merges an entry.
C9_AllOutbreakLocationsInInsertionOrder ==
  /\ [](LET r == getAllOutbreakLocations(outbreakLocations)
        IN /\ Len(r.locations) = Len(outbreakLocations)
           /\ Len(r.counts) = Len(outbreakLocations)
           /\ \A i \in 1..Len(outbreakLocations) :
                /\ r.locations[i] = outbreakLocations[i].location
                /\ r.counts[i] = outbreakLocations[i].infectedCount
           /\ r.locations = FirstSeen(Locs(infectedIndividuals)))
  /\ [][/\ Len(outbreakLocations') >= Len(outbreakLocations)
        /\ \A i \in 1..Len(outbreakLocations) :
             outbreakLocations'[i].location = outbreakLocations[i].location]_vars

C9_Witness ==
  /\ Len(outbreakLocations) = 2
  /\ outbreakLocations[1].location = LocNear
  /\ outbreakLocations[2].location = LocOrigin
  /\ outbreakLocations[1].infectedCount = 1

\* C10: a call that fails leaves administrator, radius, entries and ledger
\* as they were before it and emits none of its notifications, also when a
\* positive reportInfection fails in the scan of the nearby entries.
C10_FailedCallChangesNothing ==
  [][~lastCall'.ok => (UNCHANGED storage /\ lastCall'.logs = <<>>)]_vars

C10_Witness ==
  /\ PositiveReport(lastCall) /\ ~lastCall.ok
  /\ Len(outbreakLocations) >= 1
  /\ \A k \in 1..Len(outbreakLocations) :
       outbreakLocations[k].location # lastCall.args.location

\* the estimated distance in meters from loc1 to loc2, both well-formed
Meters(loc1, loc2) == distances[<<loc1, loc2>>].distance

\* the entries other than the one at the reported location
Others(entries, location) ==
  {k \in 1..Len(entries) : entries[k].location # location}

\* the elements of a finite set of numbers in increasing order
RECURSIVE Ascending(_)
Ascending(S) ==
  IF S = {} THEN <<>>
  ELSE LET least == CHOOSE m \in S : \A n \in S : m <= n
       IN <<least>> \o Ascending(S \ {least})

Within(entries, radius, location) ==
  {k \in 1..Len(entries) : Meters(location, entries[k].location) <= radius}

\* C12: a successful checkProximity with some entry at an estimated distance
\* <= outbreakRadius from the query returns the entry of minimum distance
\* among those, and among several at that minimum the one of lowest index.
C12_ProximityReturnsClosestFirstInserted ==
  (lastCall.op = "checkProximity" /\ lastCall.ok)
    => LET q == lastCall.args.newLocation
           within == Within(outbreakLocations, outbreakRadius, q)
           d(k) == Meters(q, outbreakLocations[k].location)
       IN within # {} =>
            \E k \in within :
              /\ lastCall.ret.location = outbreakLocations[k].location
              /\ \A j \in within : d(k) < d(j) \/ (d(k) = d(j) /\ k <= j)

C12_Witness ==
  /\ lastCall.op = "checkProximity" /\ lastCall.ok
  /\ Len(outbreakLocations) = 2
  /\ Within(outbreakLocations, outbreakRadius, lastCall.args.newLocation)
       = {1, 2}
  /\ Meters(lastCall.args.newLocation, outbreakLocations[1].location)
       = Meters(lastCall.args.newLocation, outbreakLocations[2].location)
  /\ lastCall.ret.location = outbreakLocations[1].location

\* C13: a successful checkProximity returns found = true exactly when some
\* entry is within outbreakRadius of the query; then location and
\* infectedCount are those of one current entry, and distance is the
\* estimated distance to it and is <= outbreakRadius; otherwise it returns
\* (false, "", 0, 0).
C13_ProximityResultIsOneEntryOrEmpty ==
  (lastCall.op = "checkProximity" /\ lastCall.ok)
    => LET q == lastCall.args.newLocation
           ret == lastCall.ret
       IN /\ ret.found <=>
               Within(outbreakLocations, outbreakRadius, q) # {}
          /\ ret.found =>
               \E k \in 1..Len(outbreakLocations) :
                 /\ ret.location = outbreakLocations[k].location
                 /\ ret.infectedCount = outbreakLocations[k].infectedCount
                 /\ ret.distance = Meters(q, outbreakLocations[k].location)
                 /\ ret.distance <= outbreakRadius
          /\ ~ret.found =>
               ret = [found |-> FALSE, location |-> Text(<<>>),
                      infectedCount |-> 0, distance |-> 0]

C13_Witness ==
  /\ lastCall.op = "checkProximity" /\ lastCall.ok
  /\ lastCall.ret.found
  /\ lastCall.ret.distance = outbreakRadius
  /\ Len(outbreakLocations) = 2
  /\ lastCall.ret.location = outbreakLocations[2].location
  /\ lastCall.ret.infectedCount = 1

\* C14: a successful checkExposureRisk returns as exposureCount the number of
\* ledger records with now - timestamp <= threshold and estimated distance
\* from the query <= outbreakRadius, and exposed = (exposureCount > 0).
C14_ExposureCountsRecentNearbyRecords ==
  (lastCall.op = "checkExposureRisk" /\ lastCall.ok)
    => LET q == lastCall.args.userLocation
           counted ==
             {k \in 1..Len(infectedIndividuals) :
                /\ now - infectedIndividuals[k].timestamp
                     <= lastCall.args.timeThreshold
                /\ Meters(q, infectedIndividuals[k].location)
                     <= outbreakRadius}
       IN /\ lastCall.ret.exposureCount = Cardinality(counted)
          /\ lastCall.ret.exposed <=> Cardinality(counted) > 0

C14_Witness ==
  /\ lastCall.op = "checkExposureRisk" /\ lastCall.ok
  /\ Len(infectedIndividuals) = 2
  /\ infectedIndividuals[1].timestamp < now
  /\ now - infectedIndividuals[1].timestamp = lastCall.args.timeThreshold
  /\ infectedIndividuals[2].timestamp = now
  /\ Meters(lastCall.args.userLocation, infectedIndividuals[2].location)
       > outbreakRadius
  /\ lastCall.ret = [exposed |-> TRUE, exposureCount |-> 1]

\* C15: checkExposureRisk with a malformed query text fails with a parse
\* error in every reachable state and for every threshold.
C15_MalformedExposureQueryFails ==
  (lastCall.op = "checkExposureRisk"
     /\ ~WellFormed(lastCall.args.userLocation))
    => (~lastCall.ok /\ lastCall.error \in {ErrFormat, ErrChar})

\* C16: reportNewLocation emits ProximityAlert(caller, location,
\* matchedLocation, distance) followed by PotentialOutbreak(matchedLocation,
\* infectedCount, now) exactly when checkProximity of the same text reports a
\* match, with the entry, count and distance checkProximity returns; with no
\* match it succeeds and emits nothing; the storage is unchanged either way.
C16_NewLocationAlertsFollowProximity ==
  [][lastCall'.op = "reportNewLocation"
       => LET location == lastCall'.args.location
              p == checkProximity(outbreakLocations, outbreakRadius, location)
          IN /\ UNCHANGED storage
             /\ (p.ok /\ p.found) =>
                  /\ lastCall'.ok
                  /\ lastCall'.logs =
                       <<ProximityAlert(lastCall'.sender, location,
                                        p.location, p.distance),
                         PotentialOutbreak(p.location, p.infectedCount, now)>>
             /\ (p.ok /\ ~p.found) =>
                  (lastCall'.ok /\ lastCall'.logs = <<>>)
             /\ ~p.ok => lastCall'.logs = <<>>]_vars

C16_Witness ==
  /\ lastCall.op = "reportNewLocation" /\ lastCall.ok
  /\ Len(lastCall.logs) = 2
  /\ lastCall.logs[1].name = "ProximityAlert"
  /\ lastCall.logs[1].user = lastCall.sender
  /\ lastCall.logs[1].distance > 0
  /\ lastCall.logs[2].name = "PotentialOutbreak"
  /\ lastCall.logs[2].infectedCount = 2

ReadOps == {"checkProximity", "checkExposureRisk", "getInfectedCount",
            "getOutbreakLocationsCount", "getAllOutbreakLocations"}

\* C17: checkProximity, checkExposureRisk, getInfectedCount,
\* getOutbreakLocationsCount and getAllOutbreakLocations leave the ledger, the
\* entries, the radius and the administrator as they were and emit no
\* notification, whether they succeed or fail.
C17_ReadsChangeNothing ==
  [][lastCall'.op \in ReadOps
       => (UNCHANGED storage /\ lastCall'.logs = <<>>)]_vars

C17_Witness ==
  /\ lastCall.op = "checkProximity" /\ lastCall.ok
  /\ lastCall.ret.found
  /\ Len(infectedIndividuals) = 2

\* C18: setOutbreakRadius succeeds exactly when the caller is the
\* administrator; then outbreakRadius is the new radius, and the next
\* checkProximity, checkExposureRisk and positive report decide "nearby" by
\* it; for another caller it fails with "Not authorized" and outbreakRadius
\* keeps its value; the ledger and the entries are never changed by it.
C18_OnlyAdministratorSetsRadius ==
  /\ [][lastCall'.op = "setOutbreakRadius"
          => /\ lastCall'.ok <=> lastCall'.sender = owner
             /\ lastCall'.ok =>
                  outbreakRadius' = lastCall'.args.newRadius
             /\ ~lastCall'.ok =>
                  (lastCall'.error = ErrAuth /\ UNCHANGED outbreakRadius)
             /\ UNCHANGED <<owner, infectedIndividuals,
                            outbreakLocations>>]_vars
  /\ [][(lastCall.op = "setOutbreakRadius" /\ lastCall.ok /\ lastCall'.ok)
          => LET newRadius == lastCall.args.newRadius
             IN /\ lastCall'.op = "checkProximity" =>
                     (lastCall'.ret.found <=>
                        Within(outbreakLocations, newRadius,
                               lastCall'.args.newLocation) # {})
                /\ lastCall'.op = "checkExposureRisk" =>
                     lastCall'.ret.exposureCount =
                       Cardinality(
                         {k \in 1..Len(infectedIndividuals) :
                            /\ now - infectedIndividuals[k].timestamp
                                 <= lastCall'.args.timeThreshold
                            /\ Meters(lastCall'.args.userLocation,
                                      infectedIndividuals[k].location)
                                 <= newRadius})
                /\ PositiveReport(lastCall') =>
                     Len(lastCall'.logs) = 1 + Cardinality(
                       {k \in Others(outbreakLocations,
                                     lastCall'.args.location) :
                          Meters(outbreakLocations[k].location,
                                 lastCall'.args.location) <= newRadius})]_vars

C18_Witness ==
  /\ lastCall.op = "setOutbreakRadius" /\ lastCall.ok
  /\ lastCall.sender = owner
  /\ outbreakRadius = lastCall.args.newRadius
  /\ Len(outbreakLocations) = 2
  /\ \E k \in 1..2 :
       Meters(outbreakLocations[k].location, outbreakLocations[3 - k].location)
         > outbreakRadius

\* C19: the administrator is the creator at construction and no step of any
\* operation changes it.
C19_AdministratorFixedAtCreation ==
  /\ [](lastCall.op = "constructor" => owner = lastCall.sender)
  /\ [][owner' = owner]_vars

C19_Witness ==
  /\ lastCall.op = "setOutbreakRadius" /\ ~lastCall.ok
  /\ lastCall.sender # owner
  /\ Len(infectedIndividuals) > 0

\* the value of a sequence of decimal digits
RECURSIVE DigitsValue(_)
DigitsValue(digits) ==
  IF digits = <<>> THEN 0
  ELSE 10 * DigitsValue(SubSeq(digits, 1, Len(digits) - 1))
         + (digits[Len(digits)] - Zero)

AllDigits(str) == \A i \in 1..Len(str) : str[i] \in Zero..(Zero + 9)

Unsigned(str) ==
  IF Len(str) > 0 /\ str[1] = Minus THEN Tail(str) ELSE str

\* the position of the first byte b of str, Len(str) + 1 when it has none
FirstAt(str, b) ==
  CHOOSE i \in 1..(Len(str) + 1) :
    /\ i <= Len(str) => str[i] = b
    /\ \A j \in 1..(i - 1) : str[j] # b

IntegerPart(str) == SubSeq(Unsigned(str), 1, FirstAt(Unsigned(str), Dot) - 1)

FractionPart(str) ==
  SubSeq(Unsigned(str), FirstAt(Unsigned(str), Dot) + 1, Len(Unsigned(str)))

\* an optional '-', one or more digits, and optionally '.' and one to six
\* digits
IsDecimalText(str) ==
  /\ IntegerPart(str) # <<>> /\ AllDigits(IntegerPart(str))
  /\ AllDigits(FractionPart(str)) /\ Len(FractionPart(str)) <= 6
  /\ FirstAt(Unsigned(str), Dot) <= Len(Unsigned(str))
       => FractionPart(str) # <<>>

RECURSIVE PowerOfTen(_)
PowerOfTen(n) == IF n = 0 THEN 1 ELSE 10 * PowerOfTen(n - 1)

\* sign * (I * 1,000,000 + fraction right-padded to six digits)
DegreesScaled(str) ==
  LET magnitude ==
        DigitsValue(IntegerPart(str)) * 1000000
          + DigitsValue(FractionPart(str))
              * PowerOfTen(6 - Len(FractionPart(str)))
  IN IF Len(str) > 0 /\ str[1] = Minus THEN -magnitude ELSE magnitude

LatitudeOf(location) == SubSeq(location, 1, FirstAt(location, Comma) - 1)

LongitudeOf(location) ==
  SubSeq(location, FirstAt(location, Comma) + 1, Len(location))

\* C20: parseCoordinate maps a text whose latitude and longitude are decimal
\* texts with at most six fractional digits to their values in degrees times
\* 1,000,000: sign * (I * 1,000,000 + fraction right-padded to six digits).
C20_ParserScalesDegreesByMillion ==
  (/\ lastCall.op = "parseCoordinate"
   /\ IsDecimalText(LatitudeOf(lastCall.args.location))
   /\ IsDecimalText(LongitudeOf(lastCall.args.location)))
    => /\ lastCall.ok
       /\ lastCall.ret.latitude =
            DegreesScaled(LatitudeOf(lastCall.args.location))
       /\ lastCall.ret.longitude =
            DegreesScaled(LongitudeOf(lastCall.args.location))

\* a byte that is neither a digit, nor '.', nor a '-' in first position
HasInvalidCharacter(str) ==
  \E i \in 1..Len(str) :
    /\ str[i] \notin Zero..(Zero + 9)
    /\ str[i] # Dot
    /\ ~(i = 1 /\ str[i] = Minus)

\* no ',', or the first ',' is the first or the last byte, or the text before
\* or after the first ',' has an invalid character
Malformed(location) ==
  \/ FirstAt(location, Comma) > Len(location)
  \/ FirstAt(location, Comma) = 1
  \/ FirstAt(location, Comma) = Len(location)
  \/ HasInvalidCharacter(LatitudeOf(location))
  \/ HasInvalidCharacter(LongitudeOf(location))

\* C21: parseCoordinate fails on a text without ',', on a text whose first
\* ',' is its first or last byte, and on a text whose latitude or longitude
\* part (split at the first ',') holds a byte that is not a digit, a '.' or
\* a leading '-'.
C21_MalformedTextFailsToParse ==
  (lastCall.op = "parseCoordinate" /\ Malformed(lastCall.args.location))
    => (~lastCall.ok /\ lastCall.error \in {ErrFormat, ErrChar, ErrPanic})

C21_Witness ==
  /\ lastCall.op = "parseCoordinate"
  /\ lastCall.args.location = Text(<<"1", ",", "2", ",", "3">>)
  /\ ~lastCall.ok

HasSecondDot(str) == Cardinality({i \in 1..Len(str) : str[i] = Dot}) >= 2

\* C22: parseCoordinate fails on a text whose latitude or longitude part
\* holds a second '.'.
C22_SecondDotFailsToParse ==
  (/\ lastCall.op = "parseCoordinate"
   /\ \/ HasSecondDot(LatitudeOf(lastCall.args.location))
      \/ HasSecondDot(LongitudeOf(lastCall.args.location)))
    => ~lastCall.ok

\* C23: calculateDistance gives the same distance for (A, B) and (B, A), for
\* all well-formed texts A and B.
C23_DistanceIsSymmetric ==
  (lastCall.op = "calculateDistance" /\ lastCall.ok)
    => lastCall.ret = Meters(lastCall.args.loc2, lastCall.args.loc1)

\* C24: calculateDistance of a well-formed text and itself is 0.
C24_DistanceToItselfIsZero ==
  (/\ lastCall.op = "calculateDistance"
   /\ lastCall.args.loc1 = lastCall.args.loc2
   /\ WellFormed(lastCall.args.loc1))
    => (lastCall.ok /\ lastCall.ret = 0)

C24_Witness ==
  /\ lastCall.op = "calculateDistance" /\ lastCall.ok
  /\ lastCall.args.loc1 = lastCall.args.loc2
  /\ parseCoordinate(lastCall.args.loc1).latitude < 0
  /\ parseCoordinate(lastCall.args.loc1).longitude > 0
  /\ lastCall.ret = 0

Magnitude(n) == IF n < 0 THEN -n ELSE n

\* C26: the cosine factor of a latitude given in millionths of a degree is
\* (90 degrees - |latitude|) / 90 degrees in millionths: 1,000,000 at 0,
\* 500,000 at 45 degrees, 0 at 90 degrees.
C26_CosineFactorIsLinearInLatitude ==
  lastCall.op = "cosLat1"
    => lastCall.ret = (90000000 - Magnitude(lastCall.args.latitude)) \div 90

\* C27: sqrt returns 0 for x <= 0 and otherwise the w with
\* w * w <= x < (w + 1) * (w + 1).
C27_SqrtIsFloorOfSquareRoot ==
  lastCall.op = "sqrt"
    => LET x == lastCall.args.x
           w == lastCall.ret
       IN IF x.neg \/ x.mag = <<>> THEN w = I(0)
          ELSE /\ ~w.neg
               /\ ~MagLess(x.mag, MagMul(w.mag, w.mag))
               /\ MagLess(x.mag, MagMul(MagAdd(w.mag, <<1>>),
                                        MagAdd(w.mag, <<1>>)))

C27_Witness ==
  /\ lastCall.op = "sqrt"
  /\ lastCall.args.x = Mk(FALSE, <<9999, 9999, 9999>>)
  /\ lastCall.ret = I(999999)

\* C25: with outbreakRadius 5000 and one entry, at "10.000000,20.000000",
\* checkProximity("10.000001,20.000001") returns found = true, that entry's
\* location, and a distance greater than 0 and less than 5000.
C25_MillionthOfADegreeIsNearButApart ==
  (/\ lastCall.op = "checkProximity"
   /\ lastCall.args.newLocation = LocTenPlus
   /\ outbreakRadius = 5000
   /\ Len(outbreakLocations) = 1
   /\ outbreakLocations[1].location = LocTen)
    => /\ lastCall.ok
       /\ lastCall.ret.found
       /\ lastCall.ret.location = LocTen
       /\ lastCall.ret.distance > 0
       /\ lastCall.ret.distance < 5000

RecordsAt(location) ==
  {n \in 1..Len(infectedIndividuals) :
     infectedIndividuals[n].location = location}

RECURSIVE SumOfCounts(_)
SumOfCounts(entries) ==
  IF entries = <<>> THEN 0
  ELSE entries[1].infectedCount + SumOfCounts(Tail(entries))

\* C31: in every reachable state each entry's infectedCount is the number of
\* ledger records with exactly the entry's location text (hence >= 1), every
\* ledger record's text has an entry, the infectedCount fields add up to the
\* ledger length that getInfectedCount returns, and each entry's timestamp is
\* that of the latest ledger record with its text.
C31_EntriesSummariseLedger ==
  /\ \A k \in 1..Len(outbreakLocations) :
       LET records == RecordsAt(outbreakLocations[k].location)
       IN /\ outbreakLocations[k].infectedCount = Cardinality(records)
          /\ outbreakLocations[k].infectedCount >= 1
          /\ \A n \in records :
               (\A m \in records : m <= n)
                 => outbreakLocations[k].timestamp
                      = infectedIndividuals[n].timestamp
  /\ \A n \in 1..Len(infectedIndividuals) :
       \E k \in 1..Len(outbreakLocations) :
         outbreakLocations[k].location = infectedIndividuals[n].location
  /\ SumOfCounts(outbreakLocations) = getInfectedCount(infectedIndividuals)
  /\ lastCall.op = "getInfectedCount"
       => lastCall.ret = SumOfCounts(outbreakLocations)

C31_Witness ==
  /\ lastCall.op = "getInfectedCount"
  /\ lastCall.ret = 2
  /\ Len(outbreakLocations) = 1
  /\ outbreakLocations[1].infectedCount = 2
  /\ outbreakLocations[1].timestamp = 1
  /\ infectedIndividuals[1].timestamp = 0

\* the NewInfection notifications among the given logs
NewInfections(logs) ==
  {k \in 1..Len(logs) : logs[k].name = "NewInfection"}

\* C32: no entry exists before the first call, and every call emits as many
\* NewInfection notifications as it adds entries, so the number emitted so
\* far is the number of entries; a call emits at most one, only for a text
\* that had no entry (hence once per text), and it carries the individual of
\* the first ledger record with that text.
C32_NewInfectionOncePerEntry ==
  /\ Len(outbreakLocations) = 0 /\ NewInfections(lastCall.logs) = {}
  /\ [][LET logs == lastCall'.logs
             news == NewInfections(logs)
         IN /\ Cardinality(news)
                 = Len(outbreakLocations') - Len(outbreakLocations)
            /\ Cardinality(news) <= 1
            /\ \A k \in news :
                 /\ ~\E e \in 1..Len(outbreakLocations) :
                       outbreakLocations[e].location = logs[k].location
                 /\ outbreakLocations'[Len(outbreakLocations')].location
                      = logs[k].location
                 /\ \E n \in 1..Len(infectedIndividuals') :
                      /\ infectedIndividuals'[n].location = logs[k].location
                      /\ \A m \in 1..(n - 1) :
                           infectedIndividuals'[m].location
                             # logs[k].location
                      /\ infectedIndividuals'[n].individualAddress
                           = logs[k].individualAddress]_vars

C32_Witness ==
  /\ PositiveReport(lastCall) /\ lastCall.ok
  /\ Len(outbreakLocations) = 2
  /\ Len(infectedIndividuals) = 2
  /\ infectedIndividuals[1].individualAddress
       # infectedIndividuals[2].individualAddress
  /\ Cardinality(NewInfections(lastCall.logs)) = 1
  /\ lastCall.logs[1].individualAddress
       = infectedIndividuals[2].individualAddress

\* C33: a positive reportInfection, a checkProximity and a reportNewLocation
\* with a well-formed location text succeed in every reachable state,
\* whatever calls came before.
C33_WellFormedCallsNeverFail ==
  /\ (PositiveReport(lastCall) /\ WellFormed(lastCall.args.location))
       => lastCall.ok
  /\ (lastCall.op = "reportNewLocation"
        /\ WellFormed(lastCall.args.location)) => lastCall.ok
  /\ (lastCall.op = "checkProximity"
        /\ WellFormed(lastCall.args.newLocation)) => lastCall.ok

\* C34: block.timestamp never decreases, so the ledger records' timestamps
\* are non-decreasing in index order and no record's or entry's timestamp is
\* later than now; hence currentTime - timestamp in checkExposureRisk never
\* underflows, and the query fails only when a location text fails to parse.
C34_TimestampsNeverAheadOfClock ==
  /\ \A m, n \in 1..Len(infectedIndividuals) :
       m <= n => infectedIndividuals[m].timestamp
                   <= infectedIndividuals[n].timestamp
  /\ \A n \in 1..Len(infectedIndividuals) :
       infectedIndividuals[n].timestamp <= now
  /\ \A k \in 1..Len(outbreakLocations) :
       outbreakLocations[k].timestamp <= now
  /\ \A location \in Texts, threshold \in Thresholds :
       LET e == checkExposureRisk(infectedIndividuals, outbreakRadius,
                                  location, threshold, now)
       IN ~e.ok => e.error \in {ErrFormat, ErrChar}
  /\ (lastCall.op = "checkExposureRisk" /\ ~lastCall.ok)
       => lastCall.error \in {ErrFormat, ErrChar}

C34_Witness ==
  /\ lastCall.op = "checkExposureRisk" /\ lastCall.ok
  /\ lastCall.args.timeThreshold = 0
  /\ now = 1
  /\ Len(infectedIndividuals) = 2
  /\ infectedIndividuals[1].timestamp = 0
  /\ infectedIndividuals[2].timestamp = 1
  /\ lastCall.ret.exposureCount = 1

\* the answer of checkExposureRisk in the current state with the given radius
Exposure(radius, location, threshold) ==
  checkExposureRisk(infectedIndividuals, radius, location, threshold, now)

\* C35: for a fixed state, time and well-formed text, the exposureCount of
\* checkExposureRisk does not decrease when the threshold grows, does not
\* decrease when the outbreak radius grows, and never exceeds the ledger
\* length (compared where the queries succeed).
C35_ExposureCountIsMonotone ==
  /\ \A location \in {text \in Texts : WellFormed(text)} :
       \A r1 \in Radii, t1 \in Thresholds :
         \A e1 \in {Exposure(r1, location, t1)} :
           /\ e1.ok => e1.exposureCount <= Len(infectedIndividuals)
           /\ \A r2 \in {r \in Radii : r1 <= r} :
                \A t2 \in {t \in Thresholds : t1 <= t} :
                  \A e2 \in {Exposure(r2, location, t2)} :
                    (e1.ok /\ e2.ok) => e1.exposureCount <= e2.exposureCount
  /\ (lastCall.op = "checkExposureRisk" /\ lastCall.ok)
       => /\ lastCall.ret.exposureCount <= Len(infectedIndividuals)
          /\ lastCall.ret.exposureCount
               = Exposure(outbreakRadius, lastCall.args.userLocation,
                          lastCall.args.timeThreshold).exposureCount

C35_Witness ==
  /\ lastCall.op = "checkExposureRisk" /\ lastCall.ok
  /\ WellFormed(lastCall.args.userLocation)
  /\ lastCall.args.timeThreshold = 0
  /\ outbreakRadius = 108
  /\ lastCall.ret.exposureCount = 0
  /\ Exposure(108, lastCall.args.userLocation, 1).ok
  /\ Exposure(108, lastCall.args.userLocation, 1).exposureCount = 1
  /\ Exposure(5000, lastCall.args.userLocation, 1).ok
  /\ Exposure(5000, lastCall.args.userLocation, 1).exposureCount = 2

\* the invocations of fn that have failed
FailedCalls(invocations) ==
  {k \in 1..Len(invocations) : invocations[k].outcome = "rejected"}

\* C37: retry invokes fn one at a time and at most maxRetries + 1 times; it
\* resolves with the result of the first invocation that succeeds and invokes
\* fn no more after it; when maxRetries + 1 invocations have failed it rejects
\* with the error of the last one; after failed attempt k < maxRetries it
\* waits initialDelay * factor^k, and it does not wait after the last one.
C37_RetryBacksOffUntilFirstSuccess ==
  frontend.page = "retry" =>
    LET calls == frontend.invocations
        n == Len(calls)
    IN /\ n <= frontend.maxRetries + 1
       /\ \A k \in 1..n : calls[k].attempt = k - 1
       /\ \A k \in 1..(n - 1) : calls[k].outcome = "rejected"
       /\ frontend.state = "resolved"
            <=> (n >= 1 /\ calls[n].outcome = "fulfilled")
       /\ frontend.state = "resolved" => frontend.value = calls[n].result
       /\ frontend.state = "rejected"
            <=> Cardinality(FailedCalls(calls)) = frontend.maxRetries + 1
       /\ frontend.state = "rejected" => frontend.value = calls[n].result
       /\ Len(frontend.waits)
            = IF Cardinality(FailedCalls(calls)) <= frontend.maxRetries
              THEN Cardinality(FailedCalls(calls)) ELSE frontend.maxRetries
       /\ \A k \in 1..Len(frontend.waits) :
            frontend.waits[k]
              = frontend.initialDelay * pow(frontend.factor, k - 1)

C37_Witness ==
  /\ frontend.page = "retry"
  /\ frontend.maxRetries = 2
  /\ frontend.state = "rejected"
  /\ frontend.value = "e2"
  /\ Len(frontend.invocations) = 3
  /\ frontend.invocations[2].result = "e1"
  /\ frontend.waits = <<1000, 3000>>

\* C36: when the promise of initWeb3 resolves, initializeContract has ended
\* and the returned and the module-level contract are the contract instance,
\* so a caller that awaited initWeb3 uses the contract without error; and
\* when initializeContract fails, the promise of initWeb3 is rejected.
C36_InitWeb3ResolvesAfterContractInit ==
  frontend.page = "initWeb3" =>
    /\ frontend.promise = "resolved"
         => /\ frontend.initializeContract = "fulfilled"
            /\ frontend.returned = "instance"
            /\ frontend.contract = "instance"
    /\ frontend.caller # "typeError"
    /\ frontend.initializeContract = "rejected"
         => frontend.promise = "rejected"

\* a subscription that is active: connected and neither failed nor
\* unsubscribed since; the mock's stand-in counts as active
Active(sub) ==
  IF sub.isActive = "function" THEN sub.active ELSE sub.isActive = "true"

\* C38: once initializeBlockchain has set up the three subscriptions,
\* usingEventPolling is true whenever at least one of them is not active, and
\* false only when all three are active.
C38_PollingWheneverASubscriptionIsInactive ==
  (frontend.page = "app" /\ frontend.subs # <<>>)
    => (frontend.usingEventPolling
          <=> \E i \in DOMAIN frontend.subs : ~Active(frontend.subs[i]))

\* C39: for a subscription on a real contract, isActive() is false once
\* unsubscribe() has been called, whatever callbacks arrive afterwards.
C39_InactiveForeverAfterUnsubscribe ==
  frontend.page = "app" =>
    \A i \in DOMAIN frontend.subs :
      (frontend.subs[i].isActive = "function"
         /\ frontend.subs[i].unsubscribed)
        => ~frontend.subs[i].active

====
